---------------------------- MODULE Spec2Model ----------------------------
(***************************************************************************)
(* Model of the allocation engine of grain-route/Server:                   *)
(*   utils/freshness.js          calculateFreshnessPct, isSpoiled,          *)
(*                               remainingShelfLifeHours                    *)
(*   services/simulationService  applyWarehouseTransfersToBatches,          *)
(*                               allocateRegular, allocateML                *)
(*   controllers/history         compareSimulations, simulateAllocations    *)
(*   controllers/shipment        createShipment, markShipmentArrived        *)
(*                                                                         *)
(* Units.  Time is counted in minutes (a Date's getTime() / 60000).         *)
(* Quantities are whole kilograms.  A freshness percentage is carried as    *)
(* hundredths of a percent (37.5 % is 3750), which is exactly the           *)
(* resolution Math.round(x * 100) / 100 leaves.  Remaining shelf life is    *)
(* carried in units of 1 / LifeScale(avgTemp) hours.                        *)
(***************************************************************************)
EXTENDS Integers, Sequences, FiniteSets, TLC

VARIABLES db, fr, cfg, heap, entry, reg, ml, running, ctl

vars == <<db, fr, cfg, heap, entry, reg, ml, running, ctl>>

\* ------------------------------------------------------------------------
\* Bounds of the model
\* ------------------------------------------------------------------------
\* evaluation times of the freshness functions are every 6 hours, up to 6 * MaxFreshSteps hours
MaxFreshSteps == 10

\* ------------------------------------------------------------------------
\* Small helpers
\* ------------------------------------------------------------------------
Min(a, b) == IF a <= b THEN a ELSE b

Max(a, b) == IF a >= b THEN a ELSE b

\* Math.round(num / den) for den > 0: the nearest integer, halves upwards
MathRound(num, den) == (2 * num + den) \div (2 * den)

\* minutes per hour: elapsedMs / (1000 * 60 * 60) is elapsedMin / HourMin
HourMin == 60

\* a batch without manufacture_date (null / undefined)
NoDate == -1

\* Number.POSITIVE_INFINITY, larger than every finite remaining life here
Infinity == 1000000000

\* NaN as the result of remainingShelfLifeHours
NaN == -2

\* ------------------------------------------------------------------------
\* utils/freshness.js
\* ------------------------------------------------------------------------
\* Math.max(0, (avgTemp - 20) / 10) * 0.5, times 20
TempExcess(avgTemp) == Max(0, avgTemp - 20)

\* 100 - (elapsedHours / shelf_life_hours) * 100 * tempFactor as the fraction
\* DecayNum / DecayDen (percent), elapsedHours = elapsedMin / 60 and
\* tempFactor = (20 + TempExcess) / 20
DecayNum(batch, currentDate, avgTemp) ==
    1200 * batch.shelf_life_hours
      - (currentDate - batch.manufacture_date) * (20 + TempExcess(avgTemp))

DecayDen(batch) == 12 * batch.shelf_life_hours

calculateFreshnessPctSignFlipped(batch, currentDate, avgTemp) ==
    IF batch.manufacture_date = NoDate THEN 10000
    ELSE IF batch.shelf_life_hours <= 0 THEN 10000
    ELSE LET num == 1200 * batch.shelf_life_hours
                      + (currentDate - batch.manufacture_date)
                          * (20 + TempExcess(avgTemp))
         IN  IF num <= 0 THEN 0 ELSE MathRound(100 * num, DecayDen(batch))

\* calculateFreshnessPct(batch, currentDate, avgTemp), in hundredths of a percent
calculateFreshnessPct(batch, currentDate, avgTemp) ==
    IF batch.manufacture_date = NoDate THEN 10000
    ELSE IF batch.shelf_life_hours <= 0 THEN 10000
    ELSE LET num == DecayNum(batch, currentDate, avgTemp)
         IN  \* Math.max(0, ...) and then Math.round(freshnessPct * 100) / 100
             IF num <= 0 THEN 0 ELSE MathRound(100 * num, DecayDen(batch))

DefaultAvgTemp == 25

isSpoiled(batch, currentDate, avgTemp) ==
    calculateFreshnessPct(batch, currentDate, avgTemp) <= 0

\* the unit of remainingShelfLifeHours: a result r stands for r / LifeScale hours
LifeScale(avgTemp) == 60 * (20 + TempExcess(avgTemp))

\* remainingShelfLifeHours(batch, currentDate, avgTemp) * LifeScale(avgTemp):
\* shelf_life_hours / tempFactor - elapsedHours = DecayNum / LifeScale
remainingShelfLifeHours(batch, currentDate, avgTemp) ==
    IF calculateFreshnessPct(batch, currentDate, avgTemp) <= 0 THEN 0
    ELSE IF batch.manufacture_date = NoDate \/ batch.shelf_life_hours <= 0
         THEN NaN
    ELSE Max(0, DecayNum(batch, currentDate, avgTemp))

\* ------------------------------------------------------------------------
\* Nodes.  A location is a position in km along one meridian, on which the
\* great-circle distance of two points is the difference of their positions.
\* ------------------------------------------------------------------------
\* Node.find({ type: "warehouse" }), in the order the query returns them
\* (capacity_kg 0: the node has no capacity_kg)
WarehouseNodes ==
    << [ _id |-> "W1", name |-> "W1", location |-> 40,  capacity_kg |-> 0 ],
       [ _id |-> "W2", name |-> "W2", location |-> 120, capacity_kg |-> 200 ],
       [ _id |-> "W3", name |-> "W3", location |-> 400, capacity_kg |-> 200 ] >>

WarehouseIds == { WarehouseNodes[k]._id : k \in DOMAIN WarehouseNodes }

\* the location of a node document that has no location field
NoLocation == -1

\* the warehouses and one more, empty, whose document has no location
WithUnlocatedWarehouse ==
    Append(WarehouseNodes,
           [ _id |-> "W4", name |-> "W4", location |-> NoLocation,
             capacity_kg |-> 0 ])

\* the warehouses and one more beyond the hard cap of allocateML
WithFarWarehouse ==
    Append(WarehouseNodes,
           [ _id |-> "W5", name |-> "W5", location |-> 500, capacity_kg |-> 0 ])

\* warehouse.location.coordinates[1] of some warehouse is a read of a
\* property of undefined
Unlocated(warehouses) ==
    \E k \in DOMAIN warehouses : warehouses[k].location = NoLocation

\* Node.find({ type: "ngo" })
NgoNodes ==
    << [ _id |-> "N1", name |-> "Asha", location |-> 0,
         state |-> "S1", district |-> "D1" ] >>

\* NGO.find(): the organisations, matched to their node by name
NgoOrgs == << [ _id |-> "O1", name |-> "Asha" ] >>

haversineDistanceKm(a, b) ==
    IF a.location >= b.location THEN a.location - b.location
    ELSE b.location - a.location

\* estimateTravelHours(distanceKm), in minutes: distance / 40 km/h plus half
\* an hour of rest for every full 4 hours of driving
avgSpeedKmh == 40

estimateTravelHours(distanceKm) ==
    LET baseMin == (distanceKm * HourMin) \div avgSpeedKmh
        breaks  == (baseMin \div (4 * HourMin)) * (HourMin \div 2)
    IN  baseMin + breaks

\* ------------------------------------------------------------------------
\* Sequences
\* ------------------------------------------------------------------------
\* array.filter(Keep)
FilterSeq(s, Keep(_)) == SelectSeq(s, Keep)

\* the place of x in a sorted sequence: after the last element that is not
\* after it
InsertSorted(sorted, x, k) ==
    SubSeq(sorted, 1, k) \o <<x>> \o SubSeq(sorted, k + 1, Len(sorted))

InsertPlace(sorted, x, Before(_, _)) ==
    CHOOSE k \in 0 .. Len(sorted) :
        /\ \A j \in (k + 1) .. Len(sorted) : Before(x, sorted[j])
        /\ (k = 0 \/ ~Before(x, sorted[k]))

\* array.sort(compare) as a stable insertion sort; Before(a, b) is
\* compare(a, b) < 0.  For a comparator that is a total preorder this is the
\* one stable order the language guarantees.
StableSort(s, Before(_, _)) ==
    LET f[i \in 0 .. Len(s)] ==
            IF i = 0 THEN <<>>
            ELSE InsertSorted(f[i - 1], s[i], InsertPlace(f[i - 1], s[i], Before))
    IN  f[Len(s)]

\* array.findIndex(Test), 1-based; 0 stands for -1 (not found)
FindIndex(s, Test(_)) ==
    IF \E k \in DOMAIN s : Test(s[k])
    THEN CHOOSE k \in DOMAIN s : Test(s[k]) /\ \A j \in 1 .. (k - 1) : ~Test(s[j])
    ELSE 0

\* array.splice(idx, 1) with the 1-based idx of FindIndex: splice(-1, 1)
\* removes the last element
Splice(s, idx) ==
    LET at == IF idx = 0 THEN Len(s) ELSE idx
    IN  IF Len(s) = 0 THEN s
        ELSE SubSeq(s, 1, at - 1) \o SubSeq(s, at + 1, Len(s))

SumSeq(s) ==
    LET f[i \in 0 .. Len(s)] == IF i = 0 THEN 0 ELSE f[i - 1] + s[i]
    IN  f[Len(s)]

\* ------------------------------------------------------------------------
\* services/simulationService.js: helpers
\* ------------------------------------------------------------------------
\* safeRemainingShelfLifeHours(batch, currentDate), in units of
\* 1 / LifeScale(DefaultAvgTemp) hours; Infinity without perishability data
safeRemainingShelfLifeHours(batch, currentDate) ==
    IF batch.shelf_life_hours <= 0 \/ batch.manufacture_date = NoDate
    THEN Infinity
    ELSE LET hours == remainingShelfLifeHours(batch, currentDate, DefaultAvgTemp)
         IN  IF hours = NaN THEN Infinity ELSE hours

\* availability: a batch whose manufacture_date is after the dispatch time
\* does not exist yet (snapshot batches carry no createdAt)
AvailableBy(batch, dispatchTime) ==
    batch.manufacture_date = NoDate \/ batch.manufacture_date <= dispatchTime

\* the dispatch time of a request: dispatchTime, else createdOn, else now
RequestTime(request, now) ==
    IF request.dispatchTime # NoDate THEN request.dispatchTime
    ELSE IF request.createdOn # NoDate THEN request.createdOn
    ELSE now

\* a clamp that applies the floor and forgets the ceiling
ClampDispatchFloorOnly(t, options) ==
    IF options.dispatchTimeFloor # NoDate /\ t < options.dispatchTimeFloor
    THEN options.dispatchTimeFloor ELSE t

\* clamping to the optional window [dispatchTimeFloor, dispatchTimeCeil]
ClampDispatch(t, options) ==
    LET floored == IF options.dispatchTimeFloor # NoDate
                      /\ t < options.dispatchTimeFloor
                   THEN options.dispatchTimeFloor ELSE t
    IN  IF options.dispatchTimeCeil # NoDate /\ floored > options.dispatchTimeCeil
        THEN options.dispatchTimeCeil ELSE floored

\* a lookup that takes the first NGO node whatever the organisation
RequesterNodeAny(request) == NgoNodes

\* the NGO node of a request: the organisation by id, then the node by name;
\* <<>> when either lookup misses, else <<node>>
RequesterNode(request) ==
    LET orgs == FilterSeq(NgoOrgs, LAMBDA o : o._id = request.requesterNode)
    IN  IF orgs = <<>> THEN <<>>
        ELSE FilterSeq(NgoNodes, LAMBDA n : n.name = orgs[1].name)

\* Math.min(batch.quantity_kg, remaining)
AllocatedQtyUncapped(quantity_kg, remaining) == quantity_kg

AllocatedQty(quantity_kg, remaining) == Min(quantity_kg, remaining)

\* usedBatches.push({ batchId, quantity, freshness }); `obj` is the identity
\* of the object that was selected, not a field of the program's record
UsedBatch(batch, ref, allocatedQty, freshness) ==
    [ batchId |-> batch._id, quantity |-> allocatedQty,
      freshness |-> freshness, obj |-> ref ]

\* the body of the consumption loop for one selected batch; idx is the
\* position findIndex returned (0: not found)
ConsumeOne(st, batch, allocatedQty, idx, usedBatch) ==
    IF allocatedQty >= batch.quantity_kg
    THEN [ st EXCEPT !.used = Append(@, usedBatch),
                     !.remaining = @ - allocatedQty,
                     !.unused = Splice(@, idx) ]
    ELSE IF idx = 0
    THEN \* unusedBatches[-1] is undefined: TypeError
         [ st EXCEPT !.used = Append(@, usedBatch),
                     !.remaining = @ - allocatedQty,
                     !.threw = TRUE ]
    ELSE [ st EXCEPT !.used = Append(@, usedBatch),
                     !.remaining = @ - allocatedQty,
                     !.heap[st.unused[idx]].quantity_kg = @ - allocatedQty ]

ConsumeStep(st, ref, batch, allocatedQty, Freshness(_)) ==
    IF st.remaining <= 0 \/ st.threw THEN st
    ELSE ConsumeOne(st, batch, allocatedQty,
                    FindIndex(st.unused, LAMBDA u : st.heap[u]._id = batch._id),
                    UsedBatch(batch, ref, allocatedQty, Freshness(batch)))

\* The consumption loop shared by both allocators
\*   for (const batch of availableBatches) { if (remaining <= 0) break; ... }
\* over the selected batch objects `picks` (heap references).  The batch to
\* remove or reduce is looked up in unusedBatches by _id, not by identity.
\* The result is [heap, unused, remaining, used, threw].
ConsumeBatches(heap0, unused0, picks, required_kg, Freshness(_)) ==
    LET f[i \in 0 .. Len(picks)] ==
            IF i = 0
            THEN [ heap |-> heap0, unused |-> unused0, remaining |-> required_kg,
                   used |-> <<>>, threw |-> FALSE ]
            ELSE ConsumeStep(f[i - 1], picks[i], f[i - 1].heap[picks[i]],
                             AllocatedQty(f[i - 1].heap[picks[i]].quantity_kg,
                                          f[i - 1].remaining),
                             Freshness)
    IN  f[Len(picks)]

\* ------------------------------------------------------------------------
\* allocateRegular: one line item
\* ------------------------------------------------------------------------
\* .map(warehouse => ({ warehouse, distance })).sort(by distance)
WarehousesByDistance(ngoNode) ==
    StableSort([ k \in DOMAIN cfg.warehouses |->
                [ warehouse |-> cfg.warehouses[k],
                  distance  |-> haversineDistanceKm(ngoNode, cfg.warehouses[k]) ] ],
            LAMBDA a, b : a.distance < b.distance)

\* an eligibility that looks at the food and the place only
EligibleRegularAtPlace(b, warehouseId, foodType, dispatchTime) ==
    /\ b.foodType = foodType
    /\ b.currentNode = warehouseId

\* the baseline's eligibility of a batch at a warehouse for a line item
EligibleRegular(b, warehouseId, foodType, dispatchTime) ==
    /\ b.foodType = foodType
    /\ b.status = "stored"
    /\ b.currentNode = warehouseId
    /\ AvailableBy(b, dispatchTime)
    /\ safeRemainingShelfLifeHours(b, dispatchTime) > 0
    /\ calculateFreshnessPct(b, dispatchTime, DefaultAvgTemp) > 0

\* a faulty variant of the warehouse selection: the last warehouse with an eligible
\* batch instead of the first (a missing break)
PickSourceRegularNoBreak(heap0, unused0, byDistance, foodType, dispatchTime) ==
    LET has(k) == \E p \in DOMAIN unused0 :
                     EligibleRegular(heap0[unused0[p]],
                                     byDistance[k].warehouse._id,
                                     foodType, dispatchTime)
    IN  IF \E k \in DOMAIN byDistance : has(k)
        THEN CHOOSE k \in DOMAIN byDistance :
                 has(k) /\ \A j \in (k + 1) .. Len(byDistance) : ~has(j)
        ELSE 0

\* the index in warehousesByDistance of the nearest warehouse that has at
\* least one eligible batch; 0 when none has
PickSourceRegular(heap0, unused0, byDistance, foodType, dispatchTime) ==
    FindIndex(byDistance,
               LAMBDA c : \E p \in DOMAIN unused0 :
                            EligibleRegular(heap0[unused0[p]], c.warehouse._id,
                                            foodType, dispatchTime))

\* the time 0 the comparator gives a batch without manufacture_date and
\* createdAt: 1970, long before the start of any window (time is counted
\* from SimulationStartTime)
UnixEpoch == -10000000

\* the comparator of the baseline's batch order: remaining shelf life
\* ascending when both are finite and differ, else manufacture time ascending
RegularBefore(heap0, dispatchTime, x, y) ==
    LET ra == safeRemainingShelfLifeHours(heap0[x], dispatchTime)
        rb == safeRemainingShelfLifeHours(heap0[y], dispatchTime)
        ta == IF heap0[x].manufacture_date # NoDate
              THEN heap0[x].manufacture_date ELSE UnixEpoch
        tb == IF heap0[y].manufacture_date # NoDate
              THEN heap0[y].manufacture_date ELSE UnixEpoch
    IN  IF ra # Infinity /\ rb # Infinity /\ ra # rb THEN ra < rb ELSE ta < tb

\* availableBatches of the chosen warehouse, in consumption order (references)
AvailableRegular(heap0, unused0, warehouseId, foodType, dispatchTime) ==
    StableSort(FilterSeq(unused0,
                      LAMBDA u : EligibleRegular(heap0[u], warehouseId,
                                                 foodType, dispatchTime)),
            LAMBDA x, y : RegularBefore(heap0, dispatchTime, x, y))

\* allocations.push({ ... }) of allocateRegular, only if allocatedKg > 0
RegularRecord(allocations0, request, item, dispatchTime, source, res) ==
    [ heap |-> res.heap, unused |-> res.unused,
      allocations |->
          IF item.required_kg - res.remaining > 0 /\ ~res.threw
          THEN Append(allocations0,
                      [ requestId |-> request.requestID,
                        foodType |-> item.foodType,
                        required_kg |-> item.required_kg,
                        allocated_kg |-> item.required_kg - res.remaining,
                        warehouse |-> source.warehouse._id,
                        distance_km |-> source.distance,
                        batches |-> res.used,
                        strategy |-> "regular",
                        dispatchTime |-> dispatchTime ])
          ELSE allocations0,
      threw |-> res.threw ]

\* the item once the source warehouse is chosen (src = 0: none, the item
\* is skipped); the entries' freshness is batch.freshnessPct || 100
RegularTake(heap0, unused0, allocations0, request, item, dispatchTime, byDistance, src) ==
    IF src = 0
    THEN [ heap |-> heap0, unused |-> unused0, allocations |-> allocations0,
           threw |-> FALSE ]
    ELSE RegularRecord(allocations0, request, item, dispatchTime, byDistance[src],
                       ConsumeBatches(heap0, unused0,
                                      AvailableRegular(heap0, unused0,
                                                       byDistance[src].warehouse._id,
                                                       item.foodType, dispatchTime),
                                      item.required_kg, LAMBDA b : 10000))

RegularFrom(heap0, unused0, allocations0, request, item, dispatchTime, byDistance) ==
    RegularTake(heap0, unused0, allocations0, request, item, dispatchTime,
                byDistance,
                PickSourceRegular(heap0, unused0, byDistance, item.foodType,
                                  dispatchTime))

\* The body of `for (const item of request.items)` of allocateRegular for
\* one item: [heap, unused, allocations, threw] after it.
RegularItem(heap0, unused0, allocations0, request, item, options, now) ==
    RegularFrom(heap0, unused0, allocations0, request, item,
                ClampDispatch(RequestTime(request, now), options),
                WarehousesByDistance(RequesterNode(request)[1]))

\* ------------------------------------------------------------------------
\* applyWarehouseTransfersToBatches
\* ------------------------------------------------------------------------
\* a split child's _id: `${batch._id}-xfer-${splitSeq}`; an _id is the
\* sequence of the original id followed by the split numbers appended to it
SplitChildId(batch, splitSeq) == Append(batch._id, splitSeq)

\* the part of a split batch that stays at the source
RetainedQtyUnreduced(available, takeQty) == available

RetainedQty(available, takeQty) == available - takeQty

\* a comparator that ranks by quantity alone
TransferBeforeByQuantity(heap0, when, x, y) ==
    heap0[x].quantity_kg > heap0[y].quantity_kg

\* the comparator of takeFromSource: remaining shelf life ascending, then
\* quantity descending
TransferBefore(heap0, when, x, y) ==
    LET aLife == safeRemainingShelfLifeHours(heap0[x], when)
        bLife == safeRemainingShelfLifeHours(heap0[y], when)
    IN  IF aLife # bLife THEN aLife < bLife
        ELSE heap0[x].quantity_kg > heap0[y].quantity_kg

\* the loop of takeFromSource over the sorted candidates
TakeFrom(heap0, candidates, qtyNeeded) ==
    LET f[i \in 0 .. Len(candidates)] ==
            IF i = 0 THEN [ picked |-> <<>>, remaining |-> qtyNeeded ]
            ELSE IF f[i - 1].remaining <= 0 THEN f[i - 1]
            ELSE [ picked |->
                       Append(f[i - 1].picked,
                              [ batch |-> candidates[i],
                                takeQty |-> Min(heap0[candidates[i]].quantity_kg,
                                                f[i - 1].remaining) ]),
                   remaining |->
                       f[i - 1].remaining
                         - Min(heap0[candidates[i]].quantity_kg,
                               f[i - 1].remaining) ]
    IN  f[Len(candidates)].picked

\* takeFromSource({ sourceId, qtyNeeded }): the picked [batch, takeQty]
\* pairs, batch a reference into `working`
takeFromSource(heap0, working, sourceId, qtyNeeded, currentDate) ==
    IF qtyNeeded <= 0 THEN <<>>
    ELSE TakeFrom(heap0,
                  StableSort(FilterSeq(working,
                                       LAMBDA u : /\ heap0[u].status = "stored"
                                                  /\ heap0[u].currentNode = sourceId
                                                  /\ heap0[u].quantity_kg > 0),
                             LAMBDA x, y : TransferBefore(heap0, currentDate, x, y)),
                  qtyNeeded)

\* a batch taken in part: the source keeps the rest and a child with the
\* taken quantity is appended at the target
SplitBatch(st, ref, batch, takeQty, targetId, child, kept) ==
    [ st EXCEPT
        !.heap = Append([ st.heap EXCEPT ![ref] = kept ], child),
        !.entry = Append(st.entry, batch.quantity_kg),
        !.working = Append(st.working, Len(st.heap) + 1),
        !.splitSeq = st.splitSeq + 1,
        !.splits = Append(st.splits,
                          [ before |-> batch, takeQty |-> takeQty,
                            parent |-> ref, child |-> Len(st.heap) + 1,
                            target |-> targetId ]) ]

MoveOrSplit(st, ref, batch, takeQty, targetId) ==
    IF takeQty <= 0 \/ batch.quantity_kg <= 0 THEN st
    ELSE IF takeQty >= batch.quantity_kg
    THEN [ st EXCEPT !.heap[ref].currentNode = targetId ]
    ELSE SplitBatch(st, ref, batch, takeQty, targetId,
                    [ batch EXCEPT !._id = SplitChildId(batch, st.splitSeq + 1),
                                   !.currentNode = targetId,
                                   !.quantity_kg = takeQty ],
                    [ batch EXCEPT !.quantity_kg =
                                       RetainedQty(batch.quantity_kg, takeQty) ])

\* the loop `for (const { batch, takeQty } of picked)` for one suggestion:
\* a batch taken whole is moved, a batch taken in part is split.
\* st = [heap, entry, working, splitSeq, splits, appliedTransfers]; `entry`
\* and `splits` are bookkeeping for the properties, not program state
ApplyPicked(st0, picked, targetId) ==
    LET f[i \in 0 .. Len(picked)] ==
            IF i = 0 THEN st0
            ELSE MoveOrSplit(f[i - 1], picked[i].batch,
                             f[i - 1].heap[picked[i].batch], picked[i].takeQty,
                             targetId)
    IN  f[Len(picked)]

\* a report of the suggested quantity instead of the taken one
ApplyTakenAsSuggested(st, suggestion, picked, totalTaken) ==
    IF totalTaken <= 0 THEN st
    ELSE [ ApplyPicked(st, picked, suggestion.target) EXCEPT
             !.appliedTransfers =
                 Append(@, [ sourceWarehouseId |-> suggestion.source,
                             targetWarehouseId |-> suggestion.target,
                             suggested_quantity_kg |->
                                 suggestion.suggested_quantity_kg,
                             applied_quantity_kg |->
                                 suggestion.suggested_quantity_kg ]) ]

\* one suggestion, after takeFromSource
ApplyTaken(st, suggestion, picked, totalTaken) ==
    IF totalTaken <= 0 THEN st
    ELSE [ ApplyPicked(st, picked, suggestion.target) EXCEPT
             !.appliedTransfers =
                 Append(@, [ sourceWarehouseId |-> suggestion.source,
                             targetWarehouseId |-> suggestion.target,
                             suggested_quantity_kg |->
                                 suggestion.suggested_quantity_kg,
                             applied_quantity_kg |-> totalTaken ]) ]

ApplyPickedOf(st, suggestion, picked) ==
    ApplyTaken(st, suggestion, picked,
               SumSeq([ k \in DOMAIN picked |-> picked[k].takeQty ]))

\* suggestion?.source?.mongoId?.toString?.() ?? null of a suggestion without
\* source.mongoId (or target.mongoId)
NoMongoId == ""

\* the body of `for (const t of transfers)`
ApplySuggestion(st, suggestion, currentDate) ==
    IF suggestion.source = NoMongoId \/ suggestion.target = NoMongoId
         \/ suggestion.suggested_quantity_kg <= 0
         \/ suggestion.source = suggestion.target
    THEN st
    ELSE ApplyPickedOf(st, suggestion,
                       takeFromSource(st.heap, st.working, suggestion.source,
                                      suggestion.suggested_quantity_kg,
                                      currentDate))

\* working = batches: no copy
SharedSnapshot(heap0, entry0, batches) ==
    [ heap |-> heap0, entry |-> entry0, working |-> batches, splitSeq |-> 0,
      splits |-> <<>>, appliedTransfers |-> <<>> ]

\* working = batches.map((b) => ({ ...b })) and splitSeq = 0
CopiedSnapshot(heap0, entry0, batches) ==
    [ heap     |-> heap0 \o [ k \in DOMAIN batches |-> heap0[batches[k]] ],
      entry    |-> entry0 \o [ k \in DOMAIN batches |-> entry0[batches[k]] ],
      working  |-> [ k \in DOMAIN batches |-> Len(heap0) + k ],
      splitSeq |-> 0,
      splits   |-> <<>>,
      appliedTransfers |-> <<>> ]

AppliedResult(out) ==
    [ heap |-> out.heap, entry |-> out.entry, batches |-> out.working,
      appliedTransfers |-> out.appliedTransfers, splits |-> out.splits ]

\* applyWarehouseTransfersToBatches({ batches, transfers, currentDate }).
\* transfers: a sequence of suggestions [source, target, suggested_quantity_kg]
\* (<<>> also stands for a response without the list).  Returns
\* [heap, entry, batches, appliedTransfers, splits]: with no transfers the
\* array passed in, else a new array of copies of its objects.
applyWarehouseTransfersToBatches(heap0, entry0, batches, transfers, currentDate) ==
    IF Len(transfers) = 0
    THEN [ heap |-> heap0, entry |-> entry0, batches |-> batches,
           appliedTransfers |-> <<>>, splits |-> <<>> ]
    ELSE LET f[i \in 0 .. Len(transfers)] ==
                 IF i = 0 THEN CopiedSnapshot(heap0, entry0, batches)
                 ELSE ApplySuggestion(f[i - 1], transfers[i], currentDate)
         IN  AppliedResult(f[Len(transfers)])

\* ------------------------------------------------------------------------
\* allocateML: configuration (the defaults of the environment variables)
\* ------------------------------------------------------------------------
preferredMinDeliveredFreshnessPct == 5500

relaxedMinDeliveredFreshnessPct == 2500

maxPreferredDistanceKm == 250

distanceDecayKm == 70

hardMaxDistanceKm == 450

\* Number(process.env.ML_TOP_K_WAREHOUSES ?? 12): the default, and the value
\* with the variable unset (<<>>) or set (<< its value >>)
topKWarehouses == 12

TopKOf(env) == IF env = <<>> THEN topKWarehouses ELSE env[1]

\* Math.exp(-distance / distanceDecayKm) in millionths, for the distances of
\* the model's warehouses (round(exp(-d / 70) * 10^6))
DistanceScore(distance) ==
    CASE distance = 0   -> 1000000
      [] distance = 40  -> 564718
      [] distance = 120 -> 180092
      [] distance = 400 -> 3299
      [] distance = 500 -> 790
      [] OTHER          -> 0

\* ------------------------------------------------------------------------
\* allocateML: one line item
\* ------------------------------------------------------------------------
\* the candidates without the hard cap
AllWarehouseCandidatesNoCap(ngoNode) ==
    StableSort([ k \in DOMAIN cfg.warehouses |->
                   [ warehouse |-> cfg.warehouses[k],
                     distance  |-> haversineDistanceKm(ngoNode,
                                                       cfg.warehouses[k]) ] ],
               LAMBDA a, b : a.distance < b.distance)

\* allWarehouseCandidates: within the hard cap, nearest first
AllWarehouseCandidates(ngoNode) ==
    StableSort(FilterSeq([ k \in DOMAIN cfg.warehouses |->
                          [ warehouse |-> cfg.warehouses[k],
                            distance  |-> haversineDistanceKm(ngoNode,
                                                              cfg.warehouses[k]) ] ],
                      LAMBDA x : x.distance >= 0 /\ x.distance <= hardMaxDistanceKm),
            LAMBDA a, b : a.distance < b.distance)

\* .map((b) => ({ batch, remainingHours, freshnessAtDelivery }))
MappedBatches(heap0, present, dispatchTime, deliveryTime) ==
    [ k \in DOMAIN present |->
        [ batch |-> present[k],
          remainingHours |->
              safeRemainingShelfLifeHours(heap0[present[k]], dispatchTime),
          freshnessAtDelivery |->
              calculateFreshnessPct(heap0[present[k]], deliveryTime,
                                    DefaultAvgTemp) ] ]

\* candidateBatches without the test of the batch's warehouse
CandidateBatchesAnyNode(heap0, unused0, warehouseId, foodType, dispatchTime, deliveryTime) ==
    FilterSeq(MappedBatches(heap0,
                            FilterSeq(unused0,
                                      LAMBDA u : /\ heap0[u].foodType = foodType
                                                 /\ heap0[u].status = "stored"
                                                 /\ AvailableBy(heap0[u], dispatchTime)),
                            dispatchTime, deliveryTime),
              LAMBDA x : x.remainingHours > 0 /\ x.freshnessAtDelivery > 0)

\* candidateBatches of one warehouse: [batch, remainingHours,
\* freshnessAtDelivery] of the batches that exist at dispatch, are not
\* expired at dispatch and not spoiled on arrival
CandidateBatches(heap0, unused0, warehouseId, foodType, dispatchTime, deliveryTime) ==
    FilterSeq(MappedBatches(heap0,
                            FilterSeq(unused0,
                                      LAMBDA u : /\ heap0[u].foodType = foodType
                                                 /\ heap0[u].currentNode = warehouseId
                                                 /\ heap0[u].status = "stored"
                                                 /\ AvailableBy(heap0[u], dispatchTime)),
                            dispatchTime, deliveryTime),
              LAMBDA x : x.remainingHours > 0 /\ x.freshnessAtDelivery > 0)

\* freshness at delivery descending, remaining shelf life ascending
\* (b.f - a.f || a.remainingHours - b.remainingHours; Infinity - Infinity
\* is NaN, which sort takes for 0)
TierBefore(a, b) ==
    IF a.freshnessAtDelivery # b.freshnessAtDelivery
    THEN a.freshnessAtDelivery > b.freshnessAtDelivery
    ELSE a.remainingHours < b.remainingHours

\* a tier: the candidate batches at or above a freshness threshold, ranked
Tier(candidateBatches, Meets(_)) ==
    StableSort(FilterSeq(candidateBatches, Meets), TierBefore)

\* a choice of tier that takes the loosest non-empty one
FirstTierLoosest(strictEligible, relaxedEligible, fallbackEligible) ==
    [ batches |-> fallbackEligible,
      usingRelaxed |-> Len(strictEligible) = 0 /\ Len(fallbackEligible) > 0,
      usingFallback |-> Len(relaxedEligible) = 0 /\ Len(fallbackEligible) > 0 ]

\* the first non-empty tier: [batches, usingRelaxed, usingFallback]
FirstTier(strictEligible, relaxedEligible, fallbackEligible) ==
    IF Len(strictEligible) > 0
    THEN [ batches |-> strictEligible,
           usingRelaxed |-> FALSE, usingFallback |-> FALSE ]
    ELSE IF Len(relaxedEligible) > 0
    THEN [ batches |-> relaxedEligible,
           usingRelaxed |-> TRUE, usingFallback |-> FALSE ]
    ELSE [ batches |-> fallbackEligible,
           usingRelaxed |-> Len(fallbackEligible) > 0,
           usingFallback |-> Len(fallbackEligible) > 0 ]

ChooseTier(candidateBatches) ==
    FirstTier(Tier(candidateBatches,
                   LAMBDA x : x.freshnessAtDelivery
                                >= preferredMinDeliveredFreshnessPct),
              Tier(candidateBatches,
                   LAMBDA x : x.freshnessAtDelivery
                                >= relaxedMinDeliveredFreshnessPct),
              Tier(candidateBatches, LAMBDA x : x.freshnessAtDelivery > 0))

\* expiryPressure = 1 / (1 + remainingHours / 24), in 1/10000
ExpiryPressure(remainingHours) ==
    IF remainingHours = Infinity THEN 0
    ELSE (24 * LifeScale(DefaultAvgTemp) * 10000)
           \div (24 * LifeScale(DefaultAvgTemp) + remainingHours)

\* one round of the weighting loop; w = [cum, fresh, pressure, stop]
Weigh(w, x, usableQty, required_kg) ==
    [ cum      |-> w.cum + usableQty,
      fresh    |-> w.fresh + x.freshnessAtDelivery * usableQty,
      pressure |-> w.pressure + ExpiryPressure(x.remainingHours) * usableQty,
      stop     |-> w.cum + usableQty >= required_kg ]

\* the weighting loop, left once cumulativeQty >= required_kg
WeightedSums(heap0, avail, required_kg) ==
    LET w[i \in 0 .. Len(avail)] ==
            IF i = 0 THEN [ cum |-> 0, fresh |-> 0, pressure |-> 0, stop |-> FALSE ]
            ELSE IF w[i - 1].stop THEN w[i - 1]
            ELSE Weigh(w[i - 1], avail[i],
                       Min(heap0[avail[i].batch].quantity_kg,
                           required_kg - w[i - 1].cum),
                       required_kg)
    IN  w[Len(avail)]

\* totalAvailable of a tier
TotalAvailable(heap0, avail) ==
    SumSeq([ k \in DOMAIN avail |-> heap0[avail[k].batch].quantity_kg ])

\* score *= 0.95 (fallback) or 0.98 (relaxed)
Penalised(boosted, tier) ==
    IF tier.usingFallback THEN (boosted * 95) \div 100
    ELSE IF tier.usingRelaxed THEN (boosted * 98) \div 100
    ELSE boosted

\* (...) * urgencyBoost
Boosted(base, anomaly) == IF anomaly THEN (base * 11) \div 10 ELSE base

\* distanceScore * 0.1 + weightedDeliveredFreshness / 100 * 0.45
\*   + weightedExpiryPressure * 0.05 + fulfillmentRatio * 0.4, in millionths,
\* every term cut to a whole number of millionths
BaseScore(sums, fulfilled, distance, required_kg) ==
    DistanceScore(distance) \div 10
      + (sums.fresh * 45) \div required_kg
      + (sums.pressure * 5) \div required_kg
      + (fulfilled * 400000) \div required_kg

\* a boost given to the candidates beyond the preferred distance only
ScoreOfBoostingFar(sums, fulfilled, tier, distance, required_kg, anomaly) ==
    [ score |-> Penalised(Boosted(BaseScore(sums, fulfilled, distance,
                                            required_kg),
                                  anomaly /\ distance > maxPreferredDistanceKm),
                          tier),
      fulfilled |-> fulfilled ]

\* the composite score of a candidate warehouse and its fulfillment
\* (fulfillmentRatio = Math.min(1, totalAvailable / required_kg), kept as
\* its numerator over required_kg)
ScoreOf(sums, fulfilled, tier, distance, required_kg, anomaly) ==
    [ score |-> Penalised(Boosted(BaseScore(sums, fulfilled, distance,
                                            required_kg), anomaly), tier),
      fulfilled |-> fulfilled ]

CandidateScore(heap0, tier, distance, required_kg, anomaly) ==
    ScoreOf(WeightedSums(heap0, tier.batches, required_kg),
            Min(required_kg, TotalAvailable(heap0, tier.batches)),
            tier, distance, required_kg, anomaly)

\* score > bestScore
Better(cur, cand) == cur = <<>> \/ cand.score > cur[1].score

\* the two running bests after one candidate warehouse
UpdateBest(best, cand) ==
    IF Len(cand.batches) = 0 THEN best
    ELSE [ overall |-> IF Better(best.overall, cand) THEN <<cand>>
                       ELSE best.overall,
           inCap   |-> IF cand.distance <= maxPreferredDistanceKm
                          /\ Better(best.inCap, cand)
                       THEN <<cand>> ELSE best.inCap ]

Scored(c, tier, sc) ==
    [ warehouse |-> c.warehouse, distance |-> c.distance,
      batches |-> tier.batches, score |-> sc.score, fulfilled |-> sc.fulfilled,
      usingRelaxed |-> tier.usingRelaxed, usingFallback |-> tier.usingFallback ]

ScoredCandidate(heap0, c, tier, required_kg, anomaly) ==
    Scored(c, tier, CandidateScore(heap0, tier, c.distance, required_kg, anomaly))

\* the body of the loop of evaluateCandidates for one warehouse
EvaluateOne(best, c, heap0, unused0, item, dispatchTime, anomaly) ==
    UpdateBest(best,
               ScoredCandidate(heap0, c,
                               ChooseTier(CandidateBatches(
                                   heap0, unused0, c.warehouse._id, item.foodType,
                                   dispatchTime,
                                   dispatchTime + estimateTravelHours(c.distance))),
                               item.required_kg, anomaly))

\* evaluateCandidates(warehouseCandidates): the running best candidates
\* best = [overall, inCap], each <<>> (none yet) or
\* <<[warehouse, distance, batches, score, fulfilled, ...]>>
EvaluateCandidates(best0, candidates, heap0, unused0, item, dispatchTime, anomaly) ==
    LET f[i \in 0 .. Len(candidates)] ==
            IF i = 0 THEN best0
            ELSE EvaluateOne(f[i - 1], candidates[i], heap0, unused0, item,
                             dispatchTime, anomaly)
    IN  f[Len(candidates)]

\* allWarehouseCandidates.slice(0, Math.max(1, topKWarehouses))
PrimaryCandidates(allWarehouseCandidates) ==
    SubSeq(allWarehouseCandidates, 1,
           Min(Len(allWarehouseCandidates), Max(1, TopKOf(cfg.topKEnv))))

\* the search is widened when top-K found nothing or less than 95 %
ShouldWiden(first, allWarehouseCandidates, required_kg) ==
    /\ Len(allWarehouseCandidates) > Len(PrimaryCandidates(allWarehouseCandidates))
    /\ \/ first.overall = <<>>
       \/ first.overall[1].fulfilled * 100 < 95 * required_kg

Widened(first, allWarehouseCandidates, heap0, unused0, item, dispatchTime, anomaly) ==
    IF ShouldWiden(first, allWarehouseCandidates, item.required_kg)
    THEN EvaluateCandidates(first, allWarehouseCandidates, heap0, unused0, item,
                            dispatchTime, anomaly)
    ELSE first

\* a choice that takes the overall best whatever the in-cap best fulfils
WinnerOverall(best, required_kg) == best.overall

\* the in-cap best when it fulfils at least 60 %, else the overall best
Winner(best, required_kg) ==
    IF best.inCap # <<>> /\ best.inCap[1].fulfilled * 100 >= 60 * required_kg
    THEN best.inCap ELSE best.overall

BestAmong(allWarehouseCandidates, heap0, unused0, item, dispatchTime, anomaly) ==
    Winner(Widened(EvaluateCandidates([ overall |-> <<>>, inCap |-> <<>> ],
                                      PrimaryCandidates(allWarehouseCandidates),
                                      heap0, unused0, item, dispatchTime, anomaly),
                   allWarehouseCandidates, heap0, unused0, item, dispatchTime,
                   anomaly),
           item.required_kg)

\* the winning candidate of a line item: <<>> or <<candidate>>
BestCandidate(heap0, unused0, ngoNode, item, dispatchTime, anomaly) ==
    BestAmong(AllWarehouseCandidates(ngoNode), heap0, unused0, item,
              dispatchTime, anomaly)

\* the dispatch time allocateML uses for a request
MLDispatchTime(request, options, now) ==
    LET t == IF /\ options.referenceDate # NoDate
                /\ options.dispatchTimeFloor = NoDate
                /\ options.dispatchTimeCeil = NoDate
             THEN options.referenceDate
             ELSE RequestTime(request, now)
    IN  ClampDispatch(t, options)

\* allocations.push({ ... }) of allocateML
MLRecord(allocations0, request, item, dispatchTime, ngoNode, bestWarehouse, res) ==
    [ heap |-> res.heap, unused |-> res.unused,
      allocations |->
          IF res.threw THEN allocations0
          ELSE Append(allocations0,
                      [ requestId |-> request.requestID,
                        foodType |-> item.foodType,
                        required_kg |-> item.required_kg,
                        allocated_kg |-> item.required_kg - res.remaining,
                        warehouse |-> bestWarehouse._id,
                        distance_km |-> haversineDistanceKm(ngoNode, bestWarehouse),
                        batches |-> res.used,
                        strategy |-> "ml",
                        dispatchTime |-> dispatchTime ]),
      threw |-> res.threw ]

\* the item once the best warehouse is known (<<>>: none, the item is
\* skipped)
MLTake(heap0, unused0, allocations0, request, item, dispatchTime, ngoNode, best) ==
    IF best = <<>>
    THEN [ heap |-> heap0, unused |-> unused0, allocations |-> allocations0,
           threw |-> FALSE ]
    ELSE MLRecord(allocations0, request, item, dispatchTime, ngoNode,
                  best[1].warehouse,
                  ConsumeBatches(heap0, unused0,
                                 [ k \in DOMAIN best[1].batches |->
                                     best[1].batches[k].batch ],
                                 item.required_kg,
                                 LAMBDA b : calculateFreshnessPct(
                                                b, dispatchTime, DefaultAvgTemp)))

MLItemAt(heap0, unused0, allocations0, request, item, anomaly, dispatchTime, ngoNode) ==
    MLTake(heap0, unused0, allocations0, request, item, dispatchTime, ngoNode,
           BestCandidate(heap0, unused0, ngoNode, item, dispatchTime, anomaly))

\* The body of `for (const item of request.items)` of allocateML for one
\* item: [heap, unused, allocations, threw] after it.
MLItem(heap0, unused0, allocations0, request, item, options, anomaly, now) ==
    MLItemAt(heap0, unused0, allocations0, request, item, anomaly,
             MLDispatchTime(request, options, now), RequesterNode(request)[1])

\* ------------------------------------------------------------------------
\* allocateML: the transfer planner
\* ------------------------------------------------------------------------
defaultWarehouseCapacityKg == 10000

\* stored kg per warehouse, over the batches with a positive quantity
InventoryAt(heap0, unused0, warehouseId) ==
    SumSeq([ k \in DOMAIN unused0 |->
               IF /\ heap0[unused0[k]].status = "stored"
                  /\ heap0[unused0[k]].currentNode = warehouseId
                  /\ heap0[unused0[k]].quantity_kg > 0
               THEN heap0[unused0[k]].quantity_kg ELSE 0 ])

CapacityOf(w) ==
    IF w.capacity_kg > 0 THEN w.capacity_kg ELSE defaultWarehouseCapacityKg

\* the imbalance statistics of shouldRunTransferPlanner; the ratios are given
\* in hundredths (0.8 is 80), util >= ratio is inv * 100 >= ratio * cap
ImbalanceOf(heap0, unused0, options) ==
    LET over(w)  == InventoryAt(heap0, unused0, w._id) * 100
                      >= options.transferPlannerOverstockRatio * CapacityOf(w)
        under(w) == InventoryAt(heap0, unused0, w._id) * 100
                      <= options.transferPlannerUnderstockRatio * CapacityOf(w)
    IN  [ warehouses |-> Len(WarehouseNodes),
          overCount  |-> Cardinality({ k \in DOMAIN WarehouseNodes :
                                         over(WarehouseNodes[k]) }),
          underCount |-> Cardinality({ k \in DOMAIN WarehouseNodes :
                                         under(WarehouseNodes[k]) }) ]

\* shouldRunTransferPlanner() without the test of overCount
shouldRunWhenUnderstocked(heap0, unused0, options) ==
    ImbalanceOf(heap0, unused0, options).underCount > 0

\* shouldRunTransferPlanner(): at least one overstocked and one understocked
shouldRunTransferPlanner(heap0, unused0, options) ==
    LET im == ImbalanceOf(heap0, unused0, options)
    IN  ~(im.overCount = 0 \/ im.underCount = 0)

\* ------------------------------------------------------------------------
\* controllers: compareSimulations and simulateAllocations
\* ------------------------------------------------------------------------
\* the controller's planner tuning, ratios in hundredths
SIM_TRANSFER_OVERSTOCK_RATIO == 25

SIM_TRANSFER_UNDERSTOCK_RATIO == 8

\* the date of the query, end of day; simulateAllocations' window is
\* [SimulationStartTime, TargetDate]
SimulationStartTime == 0

TargetDate == 6 * HourMin

\* new Date(): the wall clock, not before the end of the window
WallClockTimes == { TargetDate, 40 * 24 * HourMin }

NoOptions ==
    [ referenceDate |-> NoDate, dispatchTimeFloor |-> NoDate,
      dispatchTimeCeil |-> NoDate, enableTransferPlanner |-> FALSE,
      simulationOnly |-> FALSE, transferPlannerCronHours |-> 0,
      transferPlannerOverstockRatio |-> 80,
      transferPlannerUnderstockRatio |-> 40 ]

\* mlOptions of either controller (transferPlannerCronHours 0: not given)
MlOptions(c) ==
    [ referenceDate |-> IF c.mode = "compare" THEN TargetDate ELSE NoDate,
      dispatchTimeFloor |-> IF c.mode = "simulate" THEN SimulationStartTime
                            ELSE NoDate,
      dispatchTimeCeil |-> IF c.mode = "simulate" THEN TargetDate ELSE NoDate,
      enableTransferPlanner |-> c.enableTransferPlanner,
      simulationOnly |-> TRUE,
      transferPlannerCronHours |-> IF c.enableTransferPlanner THEN c.cronHours
                                   ELSE 0,
      transferPlannerOverstockRatio |-> SIM_TRANSFER_OVERSTOCK_RATIO,
      transferPlannerUnderstockRatio |-> SIM_TRANSFER_UNDERSTOCK_RATIO ]

\* the options simulateAllocations gives allocateRegular
RegularOptions(c) ==
    IF c.mode = "simulate"
    THEN [ NoOptions EXCEPT !.dispatchTimeFloor = SimulationStartTime,
                            !.dispatchTimeCeil = TargetDate ]
    ELSE NoOptions

\* clampMs of simulateAllocations
clampMs(ms) == Min(Max(ms, SimulationStartTime), TargetDate)

\* requestsForAllocation: simulateAllocations sets every request's
\* dispatchTime (headroom 0: latestDispatchCeilMs is the end of the window);
\* compareSimulations passes the requests as fetched
RequestsForAllocation(c, reqs) ==
    IF c.mode = "compare" THEN reqs
    ELSE [ k \in DOMAIN reqs |->
             [ reqs[k] EXCEPT !.dispatchTime =
                 IF c.dispatchMode = "createdon"
                 THEN Min(clampMs(reqs[k].createdOn), TargetDate)
                 ELSE TargetDate ] ]

\* batchesById.get(id): the fetched batch with this _id, <<>> when none
BatchById(heap0, batches, id) ==
    FilterSeq([ k \in DOMAIN batches |-> heap0[batches[k]] ],
              LAMBDA b : b._id = id)

\* spreadAllocationsAcrossWindow(allocations): the allocations with a
\* positive allocated_kg get dispatch times spread over the window, none
\* before its batches exist
spreadAllocationsAcrossWindow(heap0, batches, allocations) ==
    LET lo == SimulationStartTime
        span == Max(0, TargetDate - SimulationStartTime)
        nonZero == { k \in DOMAIN allocations : allocations[k].allocated_kg > 0 }
        denom == Max(1, Cardinality(nonZero) - 1)
        idx(k) == Cardinality({ j \in nonZero : j < k })
        availOf(used) ==
            LET b == BatchById(heap0, batches, used.batchId)
            IN  IF b = <<>> \/ b[1].manufacture_date = NoDate THEN lo
                ELSE b[1].manufacture_date
        minDispatch(k) ==
            LET scheduled == lo + MathRound(span * idx(k), denom)
                f[i \in 0 .. Len(allocations[k].batches)] ==
                    IF i = 0 THEN scheduled
                    ELSE Max(f[i - 1], availOf(allocations[k].batches[i]))
            IN  f[Len(allocations[k].batches)]
    IN  [ k \in DOMAIN allocations |->
            IF k \in nonZero
            THEN [ allocations[k] EXCEPT !.dispatchTime = clampMs(minDispatch(k)) ]
            ELSE allocations[k] ]

\* filterExpiredForRegular(allocations): keeps the entries whose batch is
\* not spoiled at the dispatch time
filterExpiredForRegular(heap0, batches, allocations) ==
    [ k \in DOMAIN allocations |->
        LET alloc == allocations[k]
            kept == FilterSeq(alloc.batches,
                       LAMBDA used :
                         /\ used.quantity > 0
                         /\ BatchById(heap0, batches, used.batchId) # <<>>
                         /\ calculateFreshnessPct(
                                BatchById(heap0, batches, used.batchId)[1],
                                alloc.dispatchTime, DefaultAvgTemp) > 0)
        IN  [ alloc EXCEPT !.allocated_kg =
                               SumSeq([ j \in DOMAIN kept |-> kept[j].quantity ]),
                           !.batches = kept ] ]

\* ------------------------------------------------------------------------
\* allocateML: transfer planner bookkeeping
\* ------------------------------------------------------------------------
\* the default of ML_TRANSFER_CRON_MAX_RUNS
maxCronRuns == 250

\* Number(process.env.ML_TRANSFER_CRON_MAX_RUNS ?? 250); env is <<>> when
\* the variable is not set, else << its value >>
MaxCronRunsOf(env) == IF env = <<>> THEN maxCronRuns ELSE env[1]

\* the collections Batch, Shipment and Event of the database, with the last
\* request to the shipment routes and its response: here nothing stored
EmptyDb ==
    [ batches |-> <<>>, shipments |-> <<>>, events |-> <<>>,
      request |-> [ call |-> "none", id |-> 0,
                    body |-> [ fromNodeId |-> "", toNodeId |-> "",
                               items |-> <<>> ] ],
      response |-> [ status |-> 0 ], calls |-> 0 ]

\* transferPlannerDebug as allocateML creates it (imbalance, lastError:
\* <<>> for null)
InitialDebug ==
    [ enabled |-> FALSE, cronHours |-> 0, attemptedRuns |-> 0, runs |-> 0,
      skippedRuns |-> 0, errorRuns |-> 0, lastError |-> <<>>,
      suggestedTransfers |-> 0, appliedTransfers |-> 0, lastApplied |-> <<>>,
      lastSuggestedCount |-> 0, imbalance |-> <<>>, timeline |-> <<>> ]

\* an entry of transferPlannerDebug.timeline
TimelineEntry(at, reason, skipped, suggestedCount, applied, error, imbalance) ==
    [ at |-> at, reason |-> reason, skipped |-> skipped, attempted |-> ~skipped,
      suggestedCount |-> suggestedCount, appliedCount |-> Len(applied),
      appliedKg |-> SumSeq([ k \in DOMAIN applied |->
                               applied[k].applied_quantity_kg ]),
      error |-> error, imbalance |-> imbalance ]

\* a planner that is available whatever the options say
canUseAlways(options) == options.simulationOnly \/ ~options.simulationOnly

canUseTransferPlanner(options) ==
    options.enableTransferPlanner
      /\ (~options.simulationOnly \/ options.simulationOnly)

useTransferPlannerCron(options) ==
    canUseTransferPlanner(options) /\ options.transferPlannerCronHours > 0

\* requestsToProcess: in simulated-time order under cron planning
RequestsToProcess(reqs, options) ==
    LET key(q) == IF q.dispatchTime # NoDate THEN q.dispatchTime
                  ELSE IF q.createdOn # NoDate THEN q.createdOn ELSE 0
    IN  IF useTransferPlannerCron(options)
        THEN StableSort(reqs, LAMBDA a, b : key(a) < key(b))
        ELSE reqs

\* the anchor of the cron schedule
CronAnchor(options, dispatchTime) ==
    IF options.referenceDate # NoDate THEN options.referenceDate
    ELSE IF options.dispatchTimeFloor # NoDate THEN options.dispatchTimeFloor
    ELSE dispatchTime

\* currentDate of applyWarehouseTransfersToBatches in runTransferPlannerOnce
PlannerCurrentDate(callNow, options, wallClock) ==
    IF callNow # NoDate THEN callNow
    ELSE IF options.referenceDate # NoDate THEN options.referenceDate
    ELSE wallClock

\* whether the date passed to applyWarehouseTransfersToBatches is new Date()
PlannerReadsClock(callNow, options) ==
    callNow = NoDate /\ options.referenceDate = NoDate

\* ------------------------------------------------------------------------
\* The transfer planner service (POST /transfers/plan), seen from the
\* caller: it answers with no suggestion or with one suggestion that moves
\* one of TransferQuantities kg from an overstocked to an understocked
\* warehouse (the ratios are part of the request), or the call fails.
\* ------------------------------------------------------------------------
\* a quantity above all the stock there is
OversizedQuantity == 200

\* answers a planner may give whatever the stock is: a suggestion without a
\* source or a target, from a warehouse to itself, of no or a negative
\* quantity, of more than the source holds, or from any warehouse
AnySuggestion ==
    { << [ source |-> s, target |-> t, suggested_quantity_kg |-> q ] >> :
        s \in { NoMongoId, "W2", "W3" }, t \in { NoMongoId, "W1", "W3" },
        q \in { -30, 0, 30, OversizedQuantity } }

TransferQuantities == {30, 60}

PlannerResponses(heap0, unused0, options) ==
    LET util(w) == InventoryAt(heap0, unused0, w._id) * 100
        over  == { k \in DOMAIN WarehouseNodes :
                     util(WarehouseNodes[k]) >=
                       options.transferPlannerOverstockRatio
                         * CapacityOf(WarehouseNodes[k]) }
        under == { k \in DOMAIN WarehouseNodes :
                     util(WarehouseNodes[k]) <=
                       options.transferPlannerUnderstockRatio
                         * CapacityOf(WarehouseNodes[k]) }
    IN  { <<>> } \cup
        { << [ source |-> WarehouseNodes[s]._id,
               target |-> WarehouseNodes[t]._id,
               suggested_quantity_kg |-> q ] >> :
            s \in over, t \in under, q \in TransferQuantities }
        \cup (IF cfg.plannerAnswers = "any" THEN AnySuggestion ELSE {})

\* ------------------------------------------------------------------------
\* State
\*   cfg      the controller called, its toggles, the environment variable
\*            ML_TRANSFER_CRON_MAX_RUNS and what the controller fetched
\*   heap     the batch objects; a reference is an index into heap
\*   entry    per object, the quantity it had when it entered a snapshot
\*            (for a split child: its parent's quantity before the split)
\*   reg, ml  the two allocator invocations: position, locals, result
\*            (ml.answers: per planner answer, the snapshot it met and the
\*            suggestions it carried; ml.predictFailed: POST /predict failed;
\*            ml.dispatched: the dispatch times of the requests whose items
\*            were reached, in processing order)
\*   running  which invocation holds the thread ("idle": none; a
\*            continuation runs without interruption up to its next await)
\*   ctl      the controller's position and what it returns
\* ------------------------------------------------------------------------
RegIdle ==
    [ pc |-> "idle", unused |-> <<>>, allocations |-> <<>>, r |-> 0, i |-> 0,
      requests |-> <<>>, options |-> NoOptions ]

MlIdle ==
    [ pc |-> "idle", unused |-> <<>>, allocations |-> <<>>, r |-> 0, i |-> 0,
      requests |-> <<>>, options |-> NoOptions, anomaly |-> FALSE,
      cronRuns |-> 0, nextCronRunAt |-> NoDate, debug |-> InitialDebug,
      call |-> [ reason |-> "", now |-> NoDate ], splits |-> <<>>,
      answers |-> <<>>, predictFailed |-> FALSE,
      dispatchTime |-> NoDate, dispatched |-> <<>> ]

\* the call of allocateRegular up to `await NGO.find()`
RegularCalled(batches, reqs, options) ==
    [ RegIdle EXCEPT !.pc = "awaitNgo", !.unused = batches,
                     !.requests = reqs, !.options = options ]

\* the call of allocateML up to `await NGO.find()`
MlCalled(batches, reqs, options) ==
    [ MlIdle EXCEPT !.pc = "awaitNgo", !.unused = batches,
                    !.requests = reqs, !.options = options ]

FrIdle ==
    [ batch |-> [ manufacture_date |-> NoDate, shelf_life_hours |-> 0 ],
      temp |-> DefaultAvgTemp, evaluated |-> 0, time |-> 0, pct |-> 0,
      spoiled |-> FALSE, remaining |-> 0, prevTime |-> 0, prevPct |-> 0 ]

CtlIdle ==
    [ pc |-> "start", regular |-> <<>>, ml |-> <<>>,
      allowSpoiledRegular |-> FALSE,
      regularMetrics |-> <<>>, mlMetrics |-> <<>> ]

\* the snapshots: two stored rice batches, the larger one possibly
\* perishable and then the smaller one too (made at the start of the window)
SnapshotBatches ==
    { << [ _id |-> <<1>>, foodType |-> "rice", status |-> "stored",
           currentNode |-> n1, quantity_kg |-> 100,
           manufacture_date |-> IF p[1] THEN SimulationStartTime ELSE NoDate,
           shelf_life_hours |-> IF p[1] THEN 12 ELSE 0, initial_temp_c |-> 20 ],
         [ _id |-> <<2>>, foodType |-> "rice", status |-> "stored",
           currentNode |-> n2, quantity_kg |-> 60,
           manufacture_date |-> IF p[2] THEN SimulationStartTime ELSE NoDate,
           shelf_life_hours |-> IF p[2] THEN 8 ELSE 0,
           initial_temp_c |-> 20 ] >> :
        n1 \in {"W1", "W3"}, n2 \in {"W1", "W3"},
        p \in { <<FALSE, FALSE>>, <<TRUE, FALSE>>, <<TRUE, TRUE>> } }

\* the pending requests: two requests of one rice line each
SnapshotRequests ==
    { << [ requestID |-> "R1", requesterNode |-> "O1", createdOn |-> SimulationStartTime,
           dispatchTime |-> NoDate,
           items |-> << [ foodType |-> "rice", required_kg |-> q1 ] >> ],
         [ requestID |-> "R2", requesterNode |-> "O1", createdOn |-> TargetDate,
           dispatchTime |-> NoDate,
           items |-> << [ foodType |-> "rice", required_kg |-> 100 ] >> ] >> :
        q1 \in {40, 100} }

Configurations ==
    { [ mode |-> m, enableTransferPlanner |-> p[1], cronHours |-> p[2],
        cronMaxRunsEnv |-> p[3], dispatchMode |-> d ] :
        m \in {"compare", "simulate"},
        p \in { <<FALSE, 0, <<>>>>, <<TRUE, 0, <<>>>>, <<TRUE, 6, <<>>>>,
                <<TRUE, 6, <<1>>>> },
        d \in {"spread", "createdon"} }

Init ==
    \E c \in Configurations, bs \in SnapshotBatches, rq \in SnapshotRequests :
        /\ (c.mode = "compare" => c.dispatchMode = "spread")
        /\ cfg = [ mode |-> c.mode,
                   enableTransferPlanner |-> c.enableTransferPlanner,
                   cronHours |-> c.cronHours,
                   cronMaxRunsEnv |-> c.cronMaxRunsEnv,
                   warehouses |-> WarehouseNodes, window |-> <<>>,
                   topKEnv |-> <<>>, plannerAnswers |-> "planned",
                   dispatchMode |-> c.dispatchMode,
                   batches |-> bs, requests |-> rq ]
        /\ heap = bs
        /\ entry = [ k \in DOMAIN bs |-> bs[k].quantity_kg ]
        /\ reg = RegIdle
        /\ ml = MlIdle
        /\ running = "idle"
        /\ ctl = CtlIdle
        /\ db = EmptyDb
        /\ fr = FrIdle

\* the references of the fetched batches
Fetched == [ k \in DOMAIN cfg.batches |-> k ]

\* ------------------------------------------------------------------------
\* compareSimulations
\* ------------------------------------------------------------------------
\* ------------------------------------------------------------------------
\* calcMetrics(allocations, requests, { batchesById, avgTempC,
\* referenceDate }).  Percentages, km averages and freshness in hundredths.
\* ------------------------------------------------------------------------
\* freshnessAtDelivery of one used batch of an allocation
MetricsFreshness(heap0, batches, alloc, used, avgTempC, referenceDate) ==
    LET dispatchTime == IF alloc.dispatchTime # NoDate THEN alloc.dispatchTime
                        ELSE referenceDate
        deliveryTime == dispatchTime
                          + estimateTravelHours(Max(0, alloc.distance_km))
        batch == BatchById(heap0, batches, used.batchId)
    IN  IF batch # <<>>
        THEN calculateFreshnessPct(batch[1], deliveryTime, avgTempC)
        ELSE IF used.freshness = 0 THEN 10000 ELSE used.freshness

\* a calcMetrics that writes the freshness at delivery back into the used
\* batches it reads
calcMetricsAnnotating(heap0, batches, allocations, requests, avgTempC, referenceDate) ==
    [ metrics |-> [ totalRequests |-> Len(requests) ],
      heap |-> heap0,
      allocations |->
          [ a \in DOMAIN allocations |->
              [ allocations[a] EXCEPT !.batches =
                  [ j \in DOMAIN allocations[a].batches |->
                      [ allocations[a].batches[j] EXCEPT !.freshness =
                          MetricsFreshness(heap0, batches, allocations[a],
                                              allocations[a].batches[j],
                                              avgTempC, referenceDate) ] ] ] ] ]

\* the metrics, and the batches and allocations as the call leaves them:
\* it reads them with reduce, map, filter and for-of and assigns to none
calcMetrics(heap0, batches, allocations, requests, avgTempC, referenceDate) ==
    LET n == Len(allocations)
        totalRequired == SumSeq([ a \in DOMAIN allocations |->
                                    allocations[a].required_kg ])
        totalAllocated == SumSeq([ a \in DOMAIN allocations |->
                                     allocations[a].allocated_kg ])
        uniqueRequestIds == { allocations[a].requestId : a \in DOMAIN allocations }
        fulfilledRequests ==
            Cardinality({ reqId \in uniqueRequestIds :
                            \E a \in DOMAIN allocations :
                                /\ allocations[a].requestId = reqId
                                /\ allocations[a].allocated_kg > 0 })
        totalDistanceKm == SumSeq([ a \in DOMAIN allocations |->
                                      Max(0, allocations[a].distance_km) ])
        \* sum of the per-allocation averages S_a / n_a as one fraction
        sizes == [ a \in DOMAIN allocations |->
                     Max(1, Len(allocations[a].batches)) ]
        prod[k \in 0 .. n] == IF k = 0 THEN 1 ELSE prod[k - 1] * sizes[k]
        freshnessNum ==
            SumSeq([ a \in DOMAIN allocations |->
                       SumSeq([ j \in DOMAIN allocations[a].batches |->
                                  allocations[a].batches[j].freshness ])
                         * (prod[n] \div sizes[a]) ])
        \* for (const used of alloc.batches): only a positive quantity counts
        fresh(a, j) == MetricsFreshness(heap0, batches, allocations[a],
                                        allocations[a].batches[j], avgTempC,
                                        referenceDate)
        kgWhere(Test(_)) ==
            SumSeq([ a \in DOMAIN allocations |->
                       SumSeq([ j \in DOMAIN allocations[a].batches |->
                                  IF allocations[a].batches[j].quantity > 0
                                     /\ Test(fresh(a, j))
                                  THEN allocations[a].batches[j].quantity
                                  ELSE 0 ]) ])
        deliveredKg == kgWhere(LAMBDA f : TRUE)
        deliveredFreshnessWeighted ==
            SumSeq([ a \in DOMAIN allocations |->
                       SumSeq([ j \in DOMAIN allocations[a].batches |->
                                  IF allocations[a].batches[j].quantity > 0
                                  THEN fresh(a, j)
                                         * allocations[a].batches[j].quantity
                                  ELSE 0 ]) ])
        zero == [ totalRequests |-> 0, fulfilledRequests |-> 0,
                  totalRequired |-> 0, totalAllocated |-> 0,
                  fulfillmentRate |-> 0, totalDistanceKm |-> 0,
                  avgDistance |-> 0, avgFreshness |-> 0,
                  deliveredAvgFreshness |-> 0, deliveredKg |-> 0,
                  deliveredSpoiledKg |-> 0, deliveredAtRiskKg |-> 0 ]
    IN  [ metrics |->
            IF n = 0 THEN zero
            ELSE [ totalRequests |-> Len(requests),
                   fulfilledRequests |-> fulfilledRequests,
                   totalRequired |-> totalRequired,
                   totalAllocated |-> totalAllocated,
                   fulfillmentRate |->
                       IF totalRequired > 0
                       THEN MathRound(totalAllocated * 10000, totalRequired)
                       ELSE 0,
                   totalDistanceKm |-> totalDistanceKm,
                   avgDistance |-> MathRound(totalDistanceKm * 100, n),
                   avgFreshness |-> MathRound(freshnessNum, prod[n] * n),
                   deliveredAvgFreshness |->
                       IF deliveredKg > 0
                       THEN MathRound(deliveredFreshnessWeighted, deliveredKg)
                       ELSE 0,
                   deliveredKg |-> deliveredKg,
                   deliveredSpoiledKg |-> kgWhere(LAMBDA f : f <= 0),
                   deliveredAtRiskKg |-> kgWhere(LAMBDA f : f > 0 /\ f < 2000) ],
          heap |-> heap0,
          allocations |-> allocations ]

\* REGULAR_TEMP_PENALTY_C: the default
regularTempPenaltyC == 5

\* regularMetrics = calcMetrics(...); mlMetrics = calcMetrics(...), and the
\* response: compareSimulations with the target date and 25 C for both,
\* simulateAllocations with the start of the window and the baseline 5 C
\* warmer
Respond ==
    /\ cfg.mode \in {"compare", "simulate"}
    /\ ctl.pc = "finished"
    /\ LET referenceDate == IF cfg.mode = "compare" THEN TargetDate
                            ELSE SimulationStartTime
           regularTemp == IF cfg.mode = "compare" THEN DefaultAvgTemp
                          ELSE DefaultAvgTemp + regularTempPenaltyC
           regular == calcMetrics(heap, Fetched, ctl.regular, cfg.requests,
                                  regularTemp, referenceDate)
           mlRun == calcMetrics(regular.heap, Fetched, ctl.ml, cfg.requests,
                                DefaultAvgTemp, referenceDate)
       IN  /\ heap' = mlRun.heap
           /\ ctl' = [ ctl EXCEPT !.pc = "responded",
                                  !.regular = regular.allocations,
                                  !.ml = mlRun.allocations,
                                  !.regularMetrics = regular.metrics,
                                  !.mlMetrics = mlRun.metrics ]
    /\ UNCHANGED <<db, fr, cfg, entry, reg, ml, running>>

\* Promise.all([allocateRegular(requests, batches, ...),
\*              allocateML(requests, batches, ..., { referenceDate, ... })]):
\* both calls get the fetched array and run up to their first await
CompareStart ==
    /\ cfg.mode = "compare"
    /\ ctl.pc = "start"
    /\ reg' = RegularCalled(Fetched, cfg.requests, RegularOptions(cfg))
    /\ ml' = MlCalled(Fetched, cfg.requests, MlOptions(cfg))
    /\ ctl' = [ ctl EXCEPT !.pc = "running" ]
    /\ UNCHANGED <<db, fr, cfg, heap, entry, running>>

\* both promises fulfilled: the allocations go to calcMetrics as they are
CompareFinish ==
    /\ cfg.mode = "compare"
    /\ ctl.pc = "running"
    /\ reg.pc = "done"
    /\ ml.pc = "done"
    /\ ctl' = [ ctl EXCEPT !.pc = "finished",
                           !.regular = reg.allocations,
                           !.ml = ml.allocations ]
    /\ UNCHANGED <<db, fr, cfg, heap, entry, reg, ml, running>>

\* ------------------------------------------------------------------------
\* simulateAllocations
\* ------------------------------------------------------------------------
\* regularBatches = cloneBatches(batches); mlBatches = cloneBatches(batches);
\* requestsForAllocation; await allocateRegular(...)
SimulateStart ==
    /\ cfg.mode = "simulate"
    /\ ctl.pc = "start"
    /\ LET n == Len(heap)
           m == Len(cfg.batches)
           clones == [ k \in DOMAIN cfg.batches |-> heap[k] ]
           quantities == [ k \in DOMAIN cfg.batches |-> entry[k] ]
       IN  /\ heap' = heap \o clones \o clones
           /\ entry' = entry \o quantities \o quantities
           /\ reg' = RegularCalled([ k \in DOMAIN cfg.batches |-> n + k ],
                                   RequestsForAllocation(cfg, cfg.requests),
                                   RegularOptions(cfg))
    /\ ctl' = [ ctl EXCEPT !.pc = "regular" ]
    /\ UNCHANGED <<db, fr, cfg, ml, running>>

\* await allocateML(requestsForAllocation, mlBatches, ..., mlOptions)
SimulateCallML ==
    /\ cfg.mode = "simulate"
    /\ ctl.pc = "regular"
    /\ reg.pc = "done"
    /\ ml' = MlCalled([ k \in DOMAIN cfg.batches |->
                          Len(cfg.batches) + Len(cfg.batches) + k ],
                      RequestsForAllocation(cfg, cfg.requests), MlOptions(cfg))
    /\ ctl' = [ ctl EXCEPT !.pc = "ml" ]
    /\ UNCHANGED <<db, fr, cfg, heap, entry, reg, running>>

\* the rest of simulateAllocations up to calcMetrics: the dispatch times
\* are spread in place unless dispatchMode is createdon, and the baseline's
\* allocations are filtered unless REGULAR_ALLOW_SPOILED is "1"
SimulateFinish ==
    /\ cfg.mode = "simulate"
    /\ ctl.pc = "ml"
    /\ ml.pc = "done"
    /\ \E allowSpoiledRegular \in BOOLEAN :
         LET spread == cfg.dispatchMode # "createdon"
             regularAllocations ==
                 IF spread
                 THEN spreadAllocationsAcrossWindow(heap, Fetched, reg.allocations)
                 ELSE reg.allocations
             mlAllocations ==
                 IF spread
                 THEN spreadAllocationsAcrossWindow(heap, Fetched, ml.allocations)
                 ELSE ml.allocations
         IN  /\ reg' = [ reg EXCEPT !.allocations = regularAllocations ]
             /\ ml' = [ ml EXCEPT !.allocations = mlAllocations ]
             /\ ctl' = [ pc |-> "finished",
                         regular |-> IF allowSpoiledRegular THEN regularAllocations
                                     ELSE filterExpiredForRegular(
                                              heap, Fetched, regularAllocations),
                         ml |-> mlAllocations,
                         allowSpoiledRegular |-> allowSpoiledRegular,
                         regularMetrics |-> <<>>, mlMetrics |-> <<>> ]
    /\ UNCHANGED <<db, fr, cfg, heap, entry, running>>

\* ------------------------------------------------------------------------
\* allocateRegular
\* ------------------------------------------------------------------------
\* `await NGO.find()` resolves: the function continues, and runs to its end
\* without another await
RegularResume ==
    /\ running = "idle"
    /\ reg.pc = "awaitNgo"
    /\ running' = "regular"
    /\ reg' = [ reg EXCEPT !.pc = "items", !.r = 1, !.i = 1 ]
    /\ UNCHANGED <<db, fr, cfg, heap, entry, ml, ctl>>

\* the loop of allocateRegular after one item: on to the next item or
\* request, or the function returns (or throws)
RegularAfterItem(res, lastItem, last) ==
    /\ heap' = res.heap
    /\ reg' = [ reg EXCEPT
                  !.unused = res.unused,
                  !.allocations = res.allocations,
                  !.i = IF lastItem THEN 1 ELSE reg.i + 1,
                  !.r = IF lastItem THEN reg.r + 1 ELSE reg.r,
                  !.pc = IF res.threw THEN "threw"
                         ELSE IF last THEN "done" ELSE "items" ]
    /\ running' = IF res.threw \/ last THEN "idle" ELSE "regular"

\* one line item of allocateRegular; after the last item of the last
\* request the function returns its allocations
RegularAllocateItem ==
    /\ running = "regular"
    /\ reg.pc = "items"
    /\ reg.requests[reg.r].requesterNode # ""
    /\ RequesterNode(reg.requests[reg.r]) # <<>>
    /\ ~Unlocated(cfg.warehouses)
    /\ reg.i <= Len(reg.requests[reg.r].items)
    /\ \E now \in WallClockTimes :
         RegularAfterItem(
             RegularItem(heap, reg.unused, reg.allocations, reg.requests[reg.r],
                         reg.requests[reg.r].items[reg.i], reg.options, now),
             reg.i >= Len(reg.requests[reg.r].items),
             reg.i >= Len(reg.requests[reg.r].items) /\ reg.r >= Len(reg.requests))
    /\ UNCHANGED <<db, fr, cfg, entry, ml, ctl>>

\* ------------------------------------------------------------------------
\* allocateML
\* ------------------------------------------------------------------------
\* `await NGO.find()` resolves; the payload is built and POST /predict sent
MLPostPredict ==
    /\ running = "idle"
    /\ ml.pc = "awaitNgo"
    /\ ml' = [ ml EXCEPT !.pc = "awaitPredict" ]
    /\ UNCHANGED <<db, fr, cfg, heap, entry, reg, running, ctl>>

\* POST /predict answers, with or without an anomaly for the NGO's region
MLPredictReturn ==
    /\ running = "idle"
    /\ ml.pc = "awaitPredict"
    /\ \E isAnomaly \in BOOLEAN :
         ml' = [ ml EXCEPT !.pc = "planner", !.anomaly = isAnomaly ]
    /\ running' = "ml"
    /\ UNCHANGED <<db, fr, cfg, heap, entry, reg, ctl>>

\* a catch after which the region counts as anomalous
PredictFailedAsAnomaly(m) ==
    [ m EXCEPT !.pc = "planner", !.anomaly = TRUE, !.predictFailed = TRUE ]

\* catch (_err) {}: regionalSignals stays the empty Map, nothing is recorded
PredictFailed(m) ==
    [ m EXCEPT !.pc = "planner", !.anomaly = FALSE, !.predictFailed = TRUE ]

\* POST /predict fails or times out
MLPredictFail ==
    /\ running = "idle"
    /\ ml.pc = "awaitPredict"
    /\ ml' = PredictFailed(ml)
    /\ running' = "ml"
    /\ UNCHANGED <<db, fr, cfg, heap, entry, reg, ctl>>

\* the debug fields set between the predict call and the loop
PlannerConfigured(m) ==
    [ m EXCEPT !.debug.cronHours = m.options.transferPlannerCronHours,
               !.debug.enabled = canUseTransferPlanner(m.options),
               !.requests = RequestsToProcess(m.requests, m.options),
               !.r = 1, !.i = 1 ]

\* no one-shot planning: the planner is off or runs as cron
MLNoOneShot ==
    /\ running = "ml"
    /\ ml.pc = "planner"
    /\ ~(canUseTransferPlanner(ml.options) /\ ~useTransferPlannerCron(ml.options))
    /\ ml' = [ PlannerConfigured(ml) EXCEPT !.pc = "request" ]
    /\ UNCHANGED <<db, fr, cfg, heap, entry, reg, running, ctl>>

\* shouldRunTransferPlanner() stores the imbalance it computed
WithImbalance(m) ==
    [ m EXCEPT !.debug.imbalance = << ImbalanceOf(heap, m.unused, m.options) >> ]

\* runTransferPlannerOnce({ reason, now }) up to `await axios.post(...)`
PlannerCalled(m, reason, now) ==
    [ WithImbalance(m) EXCEPT !.debug.attemptedRuns = @ + 1,
                              !.call = [ reason |-> reason, now |-> now ],
                              !.pc = "awaitPlanner" ]

\* the else branch: the run is skipped and recorded
PlannerSkipped(m, reason, at) ==
    [ WithImbalance(m) EXCEPT
        !.debug.skippedRuns = @ + 1,
        !.debug.timeline =
            Append(@, TimelineEntry(at, reason, TRUE, 0, <<>>, FALSE,
                                    << ImbalanceOf(heap, m.unused, m.options) >>)) ]

\* one-shot planning, the inventory is imbalanced: the planner is called
MLOneShotRun ==
    /\ running = "ml"
    /\ ml.pc = "planner"
    /\ canUseTransferPlanner(ml.options) /\ ~useTransferPlannerCron(ml.options)
    /\ shouldRunTransferPlanner(heap, ml.unused, ml.options)
    /\ ml' = PlannerCalled(PlannerConfigured(ml), "one-shot", NoDate)
    /\ running' = "idle"
    /\ UNCHANGED <<db, fr, cfg, heap, entry, reg, ctl>>

\* one-shot planning, no imbalance: skipped
MLOneShotSkip ==
    /\ running = "ml"
    /\ ml.pc = "planner"
    /\ canUseTransferPlanner(ml.options) /\ ~useTransferPlannerCron(ml.options)
    /\ ~shouldRunTransferPlanner(heap, ml.unused, ml.options)
    /\ ml' = [ PlannerSkipped(PlannerConfigured(ml), "one-shot",
                              ml.options.referenceDate)
                 EXCEPT !.pc = "request" ]
    /\ UNCHANGED <<db, fr, cfg, heap, entry, reg, running, ctl>>

\* the request the loop is at, and its dispatch time
MLRequest == ml.requests[ml.r]

\* the loop is at a request whose organisation and node are found
MLAtRequest ==
    /\ running = "ml"
    /\ ml.pc = "request"
    /\ ml.r <= Len(ml.requests)
    /\ MLRequest.requesterNode # ""
    /\ RequesterNode(MLRequest) # <<>>

\* `now` is a possible reading of the clock for the request's dispatchTime:
\* new Date() is read once per request
ReadsDispatchTime(now) ==
    \/ ml.dispatchTime = NoDate
    \/ ml.dispatchTime = MLDispatchTime(MLRequest, ml.options, now)

\* the request's items are reached with this dispatch time
AtItems(m, dispatchTime) ==
    [ m EXCEPT !.pc = "items", !.i = 1, !.dispatchTime = dispatchTime,
               !.dispatched = Append(@, dispatchTime) ]

\* the loop is over: allocateML returns its allocations
MLReturn ==
    /\ running = "ml"
    /\ ml.pc = "request"
    /\ ml.r > Len(ml.requests)
    /\ ml' = [ ml EXCEPT !.pc = "done" ]
    /\ running' = "idle"
    /\ UNCHANGED <<db, fr, cfg, heap, entry, reg, ctl>>

\* a request without cron planning: on to its items
MLRequestNoCron ==
    /\ MLAtRequest
    /\ ~useTransferPlannerCron(ml.options)
    /\ \E now \in WallClockTimes :
         ml' = AtItems(ml, MLDispatchTime(MLRequest, ml.options, now))
    /\ UNCHANGED <<db, fr, cfg, heap, entry, reg, running, ctl>>

\* if (!nextCronRunAt): the schedule is anchored and the planner runs once
\* at the anchor (called when the inventory is imbalanced, else skipped)
MLCronInit ==
    /\ MLAtRequest
    /\ useTransferPlannerCron(ml.options)
    /\ ml.nextCronRunAt = NoDate
    /\ \E now \in WallClockTimes :
         LET anchor == CronAnchor(ml.options,
                                  MLDispatchTime(MLRequest, ml.options, now))
             anchored == [ ml EXCEPT !.nextCronRunAt = anchor,
                                     !.dispatchTime =
                                         MLDispatchTime(MLRequest, ml.options, now) ]
             counted == [ anchored EXCEPT !.cronRuns = @ + 1 ]
             call == shouldRunTransferPlanner(heap, ml.unused, ml.options)
         IN  /\ ml' = IF ~(ml.cronRuns < MaxCronRunsOf(cfg.cronMaxRunsEnv))
                      THEN anchored
                      ELSE IF call THEN PlannerCalled(counted, "cron init", anchor)
                      ELSE PlannerSkipped(counted, "cron init", anchor)
             /\ running' = IF ml.cronRuns < MaxCronRunsOf(cfg.cronMaxRunsEnv) /\ call
                           THEN "idle" ELSE "ml"
    /\ UNCHANGED <<db, fr, cfg, heap, entry, reg, ctl>>

\* a while condition that lets one more interval pass
CronDueLate(now) ==
    /\ ml.cronRuns < MaxCronRunsOf(cfg.cronMaxRunsEnv)
    /\ ml.nextCronRunAt # NoDate
    /\ MLDispatchTime(MLRequest, ml.options, now)
         >= ml.nextCronRunAt + 2 * ml.options.transferPlannerCronHours * HourMin

\* a while condition without the safety cap
CronDueUncapped(now) ==
    /\ ml.nextCronRunAt # NoDate
    /\ MLDispatchTime(MLRequest, ml.options, now)
         >= ml.nextCronRunAt + ml.options.transferPlannerCronHours * HourMin

\* the condition of the while loop of the cron schedule
CronDue(now) ==
    /\ ml.cronRuns < MaxCronRunsOf(cfg.cronMaxRunsEnv)
    /\ ml.nextCronRunAt # NoDate
    /\ MLDispatchTime(MLRequest, ml.options, now)
         >= ml.nextCronRunAt + 2 * ml.options.transferPlannerCronHours * HourMin
              - ml.options.transferPlannerCronHours * HourMin

\* one round of the while loop: the schedule advances by the interval and
\* the planner is called or skipped
MLCronTick ==
    /\ MLAtRequest
    /\ useTransferPlannerCron(ml.options)
    /\ ml.nextCronRunAt # NoDate
    /\ \E now \in WallClockTimes :
         /\ ReadsDispatchTime(now)
         /\ CronDue(now)
         /\ LET at == ml.nextCronRunAt
                        + ml.options.transferPlannerCronHours * HourMin
                counted == [ ml EXCEPT !.nextCronRunAt = at, !.cronRuns = @ + 1,
                                       !.dispatchTime =
                                           MLDispatchTime(MLRequest, ml.options, now) ]
                call == shouldRunTransferPlanner(heap, ml.unused, ml.options)
            IN  /\ ml' = IF call THEN PlannerCalled(counted, "cron tick", at)
                         ELSE PlannerSkipped(counted, "cron tick", at)
                /\ running' = IF call THEN "idle" ELSE "ml"
    /\ UNCHANGED <<db, fr, cfg, heap, entry, reg, ctl>>

\* the while loop ends: on to the request's items
MLCronDone ==
    /\ MLAtRequest
    /\ useTransferPlannerCron(ml.options)
    /\ ml.nextCronRunAt # NoDate
    /\ \E now \in WallClockTimes :
         /\ ReadsDispatchTime(now)
         /\ ~CronDue(now)
         /\ ml' = AtItems(ml, MLDispatchTime(MLRequest, ml.options, now))
    /\ UNCHANGED <<db, fr, cfg, heap, entry, reg, running, ctl>>

\* runTransferPlannerOnce after the answer: the suggestions are applied to
\* the snapshot and the run is recorded
PlannerApplied(applied, transfers) ==
    /\ heap' = applied.heap
    /\ entry' = applied.entry
    /\ ml' = [ ml EXCEPT
                 !.unused = applied.batches,
                 !.splits = applied.splits,
                 !.answers = Append(@, [ heap |-> heap, entry |-> entry,
                                         unused |-> ml.unused,
                                         transfers |-> transfers ]),
                 !.debug.suggestedTransfers = @ + Len(transfers),
                 !.debug.lastSuggestedCount = Len(transfers),
                 !.debug.runs = @ + 1,
                 !.debug.appliedTransfers = @ + Len(applied.appliedTransfers),
                 !.debug.lastApplied = applied.appliedTransfers,
                 !.debug.timeline =
                     Append(@, TimelineEntry(ml.call.now, ml.call.reason, FALSE,
                                             Len(transfers),
                                             applied.appliedTransfers, FALSE, <<>>)),
                 !.pc = "request" ]

\* POST /transfers/plan answers
MLPlannerReturn ==
    /\ running = "idle"
    /\ ml.pc = "awaitPlanner"
    /\ \E transfers \in PlannerResponses(heap, ml.unused, ml.options),
          wallClock \in WallClockTimes :
         /\ (~PlannerReadsClock(ml.call.now, ml.options)
               => wallClock = TargetDate)
         /\ PlannerApplied(
                applyWarehouseTransfersToBatches(
                    heap, entry, ml.unused, transfers,
                    PlannerCurrentDate(ml.call.now, ml.options, wallClock)),
                transfers)
    /\ running' = "ml"
    /\ UNCHANGED <<db, fr, cfg, reg, ctl>>

\* a catch that records nothing
PlannerFailedSilently(m) ==
    [ m EXCEPT !.pc = "request" ]

\* the catch of runTransferPlannerOnce: the error is recorded, [] returned
PlannerFailed(m) ==
    [ m EXCEPT
        !.debug.errorRuns = @ + 1,
        !.debug.lastError = << "transfer planner error" >>,
        !.debug.timeline =
            Append(@, TimelineEntry(m.call.now, m.call.reason, FALSE,
                                    0, <<>>, TRUE, <<>>)),
        !.pc = "request" ]

\* POST /transfers/plan fails or times out
MLPlannerFail ==
    /\ running = "idle"
    /\ ml.pc = "awaitPlanner"
    /\ ml' = PlannerFailed(ml)
    /\ running' = "ml"
    /\ UNCHANGED <<db, fr, cfg, heap, entry, reg, ctl>>

\* the loop of allocateML after one item
MLAfterItem(res, lastItem) ==
    /\ heap' = res.heap
    /\ ml' = [ ml EXCEPT
                 !.unused = res.unused,
                 !.allocations = res.allocations,
                 !.i = IF lastItem THEN 1 ELSE ml.i + 1,
                 !.r = IF lastItem THEN ml.r + 1 ELSE ml.r,
                 !.dispatchTime = IF lastItem THEN NoDate ELSE @,
                 !.pc = IF res.threw THEN "threw"
                        ELSE IF lastItem THEN "request" ELSE "items" ]
    /\ running' = IF res.threw THEN "idle" ELSE "ml"

\* one line item of allocateML; after the request's last item the loop
\* goes to the next request
MLAllocateItem ==
    /\ running = "ml"
    /\ ml.pc = "items"
    /\ ml.i <= Len(MLRequest.items)
    /\ ~Unlocated(cfg.warehouses)
    /\ \E now \in WallClockTimes :
         /\ ReadsDispatchTime(now)
         /\ MLAfterItem(
             MLItem(heap, ml.unused, ml.allocations, ml.requests[ml.r],
                    ml.requests[ml.r].items[ml.i], ml.options, ml.anomaly, now),
             ml.i >= Len(ml.requests[ml.r].items))
    /\ UNCHANGED <<db, fr, cfg, entry, reg, ctl>>

\* ------------------------------------------------------------------------
\* Requests the loops do not allocate.  In a request, requesterNode "" is a
\* request without requesterNode, items <<>> a request without items.
\* ------------------------------------------------------------------------
\* ngoOrgs.find((org) => ... === request.requesterNode.toString()): a
\* TypeError when the request has no requesterNode; the promise is rejected
RegularRequestThrow ==
    /\ running = "regular"
    /\ reg.pc = "items"
    /\ reg.requests[reg.r].requesterNode = ""
    /\ reg' = [ reg EXCEPT !.pc = "threw" ]
    /\ running' = "idle"
    /\ UNCHANGED <<db, fr, cfg, heap, entry, ml, ctl>>

\* if (!ngoOrg) continue; if (!ngoNode) continue
RegularRequestSkip ==
    /\ running = "regular"
    /\ reg.pc = "items"
    /\ reg.requests[reg.r].requesterNode # ""
    /\ RequesterNode(reg.requests[reg.r]) = <<>>
    /\ reg' = [ reg EXCEPT !.r = @ + 1, !.i = 1,
                           !.pc = IF reg.r >= Len(reg.requests)
                                  THEN "done" ELSE "items" ]
    /\ running' = IF reg.r >= Len(reg.requests) THEN "idle" ELSE "regular"
    /\ UNCHANGED <<db, fr, cfg, heap, entry, ml, ctl>>

\* for (const item of request.items): a TypeError when the request has no
\* items
RegularItemsThrow ==
    /\ running = "regular"
    /\ reg.pc = "items"
    /\ reg.requests[reg.r].requesterNode # ""
    /\ RequesterNode(reg.requests[reg.r]) # <<>>
    /\ ~Unlocated(cfg.warehouses)
    /\ reg.requests[reg.r].items = <<>>
    /\ reg' = [ reg EXCEPT !.pc = "threw" ]
    /\ running' = "idle"
    /\ UNCHANGED <<db, fr, cfg, heap, entry, ml, ctl>>

\* ngoOrgMap.get(request.requesterNode.toString()): a TypeError when the
\* request has no requesterNode; the promise is rejected
MLRequestThrow ==
    /\ running = "ml"
    /\ ml.pc = "request"
    /\ ml.r <= Len(ml.requests)
    /\ MLRequest.requesterNode = ""
    /\ ml' = [ ml EXCEPT !.pc = "threw" ]
    /\ running' = "idle"
    /\ UNCHANGED <<db, fr, cfg, heap, entry, reg, ctl>>

\* if (!ngoOrg) continue; if (!ngoNode) continue
MLRequestSkip ==
    /\ running = "ml"
    /\ ml.pc = "request"
    /\ ml.r <= Len(ml.requests)
    /\ MLRequest.requesterNode # ""
    /\ RequesterNode(MLRequest) = <<>>
    /\ ml' = [ ml EXCEPT !.r = @ + 1 ]
    /\ UNCHANGED <<db, fr, cfg, heap, entry, reg, running, ctl>>

\* for (const item of request.items): a TypeError when the request has no
\* items, after the request's dispatch time and cron planning
MLItemsThrow ==
    /\ running = "ml"
    /\ ml.pc = "items"
    /\ MLRequest.items = <<>>
    /\ ml' = [ ml EXCEPT !.pc = "threw" ]
    /\ running' = "idle"
    /\ UNCHANGED <<db, fr, cfg, heap, entry, reg, ctl>>

\* (warehouses || []).map((warehouse) => haversineDistanceKm(...,
\* { lat: warehouse.location.coordinates[1], ... })), once per request of
\* allocateRegular: a TypeError at a warehouse without location
RegularRankThrow ==
    /\ running = "regular"
    /\ reg.pc = "items"
    /\ reg.requests[reg.r].requesterNode # ""
    /\ RequesterNode(reg.requests[reg.r]) # <<>>
    /\ Unlocated(cfg.warehouses)
    /\ reg' = [ reg EXCEPT !.pc = "threw" ]
    /\ running' = "idle"
    /\ UNCHANGED <<db, fr, cfg, heap, entry, ml, ctl>>

\* the same map, once per line item of allocateML
MLRankThrow ==
    /\ running = "ml"
    /\ ml.pc = "items"
    /\ ml.i <= Len(MLRequest.items)
    /\ Unlocated(cfg.warehouses)
    /\ ml' = [ ml EXCEPT !.pc = "threw" ]
    /\ running' = "idle"
    /\ UNCHANGED <<db, fr, cfg, heap, entry, reg, ctl>>

Next ==
    \/ CompareStart
    \/ CompareFinish
    \/ SimulateStart
    \/ SimulateCallML
    \/ SimulateFinish
    \/ RegularResume
    \/ RegularAllocateItem
    \/ MLPostPredict
    \/ MLPredictReturn
    \/ MLPredictFail
    \/ MLNoOneShot
    \/ MLOneShotRun
    \/ MLOneShotSkip
    \/ MLReturn
    \/ MLRequestNoCron
    \/ MLCronInit
    \/ MLCronTick
    \/ MLCronDone
    \/ MLPlannerReturn
    \/ MLPlannerFail
    \/ MLAllocateItem

Spec == Init /\ [][Next]_vars

\* nothing is left to run: the controller has answered or its promise is
\* rejected (in every other reachable state a step of Next is possible)
Quiescent == ctl.pc \in { "finished", "rejected" }

\* a continuation that can run is run by the event loop and an awaited call
\* settles (the HTTP calls have a timeout): weak fairness of Next, with
\* ENABLED <<Next>>_vars written out as ~Quiescent
EventLoopRuns == []<>Quiescent \/ []<><<Next>>_vars

\* the runs with progress
SpecLive == Init /\ [][Next]_vars /\ EventLoopRuns

\* the runs with the metrics and the response at their end
NextMetrics ==
    \/ Next
    \/ Respond

SpecMetrics == Init /\ [][NextMetrics]_vars

\* ------------------------------------------------------------------------
\* The exported allocators called directly: allocateRegular(requests,
\* batches, warehouses, ngos) and allocateML(requests, batches, warehouses,
\* ngos, options), on requests as a caller may hold them
\* ------------------------------------------------------------------------
\* both batches not perishable and at the same warehouse
DirectBatches ==
    { bs \in SnapshotBatches :
        /\ bs[1].shelf_life_hours = 0
        /\ bs[1].currentNode = bs[2].currentNode }

\* stock at all three warehouses: a little at the nearest, perishable rice
\* at the second, plenty at the farthest
SpreadBatches ==
    { << [ _id |-> <<1>>, foodType |-> "rice", status |-> "stored",
           currentNode |-> "W1", quantity_kg |-> 50,
           manufacture_date |-> NoDate, shelf_life_hours |-> 0,
           initial_temp_c |-> 20 ],
         [ _id |-> <<2>>, foodType |-> "rice", status |-> "stored",
           currentNode |-> "W2", quantity_kg |-> 100,
           manufacture_date |-> SimulationStartTime, shelf_life_hours |-> 12,
           initial_temp_c |-> 20 ],
         [ _id |-> <<3>>, foodType |-> "rice", status |-> "stored",
           currentNode |-> "W3", quantity_kg |-> 100,
           manufacture_date |-> NoDate, shelf_life_hours |-> 0,
           initial_temp_c |-> 20 ] >> }

\* stock beyond the preferred radius only: most of it beyond the hard cap
FarBatches ==
    { << [ _id |-> <<1>>, foodType |-> "rice", status |-> "stored",
           currentNode |-> "W5", quantity_kg |-> 100,
           manufacture_date |-> NoDate, shelf_life_hours |-> 0,
           initial_temp_c |-> 20 ],
         [ _id |-> <<2>>, foodType |-> "rice", status |-> "stored",
           currentNode |-> "W3", quantity_kg |-> 60,
           manufacture_date |-> NoDate, shelf_life_hours |-> 0,
           initial_temp_c |-> 20 ] >> }

\* stock that is not all selectable: rice that is made three hours into the
\* window and keeps 12 h, a reserved batch beside it, a stored one far away
LateBatches ==
    { << [ _id |-> <<1>>, foodType |-> "rice", status |-> "stored",
           currentNode |-> "W1", quantity_kg |-> 100,
           manufacture_date |-> 3 * HourMin, shelf_life_hours |-> 12,
           initial_temp_c |-> 20 ],
         [ _id |-> <<2>>, foodType |-> "rice", status |-> "reserved",
           currentNode |-> "W1", quantity_kg |-> 60,
           manufacture_date |-> NoDate, shelf_life_hours |-> 0,
           initial_temp_c |-> 20 ],
         [ _id |-> <<3>>, foodType |-> "rice", status |-> "stored",
           currentNode |-> "W3", quantity_kg |-> 60,
           manufacture_date |-> NoDate, shelf_life_hours |-> 0,
           initial_temp_c |-> 20 ] >> }

\* one request of a rice line created at the end of the window, and a
\* second one: complete, or without a timestamp, or without requesterNode,
\* or of an organisation that is not known, or without items, or for a food
\* no warehouse holds
DirectRequest(kind) ==
    [ requestID |-> "R1",
      requesterNode |-> IF kind = "no requester" THEN ""
                        ELSE IF kind = "unknown org" THEN "O9" ELSE "O1",
      createdOn |-> IF kind = "no timestamp" THEN NoDate
                    ELSE SimulationStartTime,
      dispatchTime |-> NoDate,
      items |-> IF kind = "no items" THEN <<>>
                ELSE << [ foodType |-> IF kind = "other food" THEN "wheat"
                                       ELSE "rice",
                          required_kg |-> 40 ] >> ]

DirectRequests ==
    LET second == [ requestID |-> "R2", requesterNode |-> "O1",
                    createdOn |-> TargetDate, dispatchTime |-> NoDate,
                    items |-> << [ foodType |-> "rice", required_kg |-> 100 ] >> ]
    IN  UNION { { << DirectRequest(kind), second >>,
                  << second, DirectRequest(kind) >> } :
                kind \in { "complete", "no timestamp", "no requester",
                           "unknown org", "no items", "other food" } }

\* a request that lacks nothing, for rice
Complete(request) ==
    /\ request.requesterNode = "O1"
    /\ request.createdOn # NoDate
    /\ request.items # <<>>
    /\ \A i \in DOMAIN request.items : request.items[i].foodType = "rice"

\* the dispatch windows of a direct call: none, or one inside the time the
\* requests span
DirectWindows == { <<>>, << 2 * HourMin, 4 * HourMin >> }

\* options.dispatchTimeFloor and options.dispatchTimeCeil of a direct call
WindowOptions(c) ==
    IF c.window = <<>> THEN NoOptions
    ELSE [ NoOptions EXCEPT !.dispatchTimeFloor = c.window[1],
                            !.dispatchTimeCeil = c.window[2] ]

\* the options of a direct call: none but the planner switch and the cron
\* interval
DirectOptions(c) ==
    [ WindowOptions(c) EXCEPT !.enableTransferPlanner = c.enableTransferPlanner,
                              !.transferPlannerCronHours = c.cronHours ]

InitDirect ==
    \E p \in { <<FALSE, 0>>, <<TRUE, 0>>, <<TRUE, 6>> },
       bs \in DirectBatches \cup SpreadBatches \cup FarBatches \cup LateBatches,
       rq \in DirectRequests,
       ws \in { WarehouseNodes, WithUnlocatedWarehouse, WithFarWarehouse },
       w \in DirectWindows, topK \in { <<>>, <<2>> },
       answers \in { "planned", "any" } :
        /\ ws # WarehouseNodes \/ topK # <<>>
              => /\ ~p[1]
                 /\ w = <<>>
                 /\ \A k \in DOMAIN rq : Complete(rq[k])
        /\ ws # WarehouseNodes => topK = <<>>
        /\ topK # <<>> <=> bs \in SpreadBatches
        /\ ws = WithFarWarehouse <=> bs \in FarBatches
        /\ bs \in LateBatches => ~p[1] /\ w = <<>> /\ ws = WarehouseNodes
        /\ answers = "any"
              => /\ p[1] /\ w = <<>> /\ bs \in DirectBatches
                 /\ \A k \in DOMAIN rq : Complete(rq[k])
        /\ cfg = [ mode |-> "direct", enableTransferPlanner |-> p[1],
                   cronHours |-> p[2], cronMaxRunsEnv |-> <<>>,
                   warehouses |-> ws, window |-> w, topKEnv |-> topK,
                   plannerAnswers |-> answers,
                   dispatchMode |-> "createdon", batches |-> bs,
                   requests |-> rq ]
        /\ heap = bs
        /\ entry = [ k \in DOMAIN bs |-> bs[k].quantity_kg ]
        /\ reg = RegIdle
        /\ ml = MlIdle
        /\ running = "idle"
        /\ ctl = CtlIdle
        /\ db = EmptyDb
        /\ fr = FrIdle

\* await allocateRegular(requests, batches, warehouses, ngos)
DirectCallRegular ==
    /\ cfg.mode = "direct"
    /\ ctl.pc = "start"
    /\ reg' = RegularCalled(Fetched, cfg.requests, WindowOptions(cfg))
    /\ ctl' = [ ctl EXCEPT !.pc = "regular" ]
    /\ UNCHANGED <<db, fr, cfg, heap, entry, ml, running>>

\* await allocateML(requests, batches, warehouses, ngos, options)
DirectCallML ==
    /\ cfg.mode = "direct"
    /\ ctl.pc = "start"
    /\ ml' = MlCalled(Fetched, cfg.requests, DirectOptions(cfg))
    /\ ctl' = [ ctl EXCEPT !.pc = "ml" ]
    /\ UNCHANGED <<db, fr, cfg, heap, entry, reg, running>>

\* the promise is fulfilled with the allocations
DirectFulfilled ==
    /\ cfg.mode = "direct"
    /\ \/ ctl.pc = "regular" /\ reg.pc = "done"
       \/ ctl.pc = "ml" /\ ml.pc = "done"
    /\ ctl' = [ ctl EXCEPT !.pc = "finished",
                           !.regular = reg.allocations,
                           !.ml = ml.allocations ]
    /\ UNCHANGED <<db, fr, cfg, heap, entry, reg, ml, running>>

\* the promise is rejected: the caller gets the TypeError and no allocation
DirectRejected ==
    /\ cfg.mode = "direct"
    /\ \/ ctl.pc = "regular" /\ reg.pc = "threw"
       \/ ctl.pc = "ml" /\ ml.pc = "threw"
    /\ ctl' = [ ctl EXCEPT !.pc = "rejected" ]
    /\ UNCHANGED <<db, fr, cfg, heap, entry, reg, ml, running>>

NextDirect ==
    \/ DirectCallRegular
    \/ DirectCallML
    \/ DirectFulfilled
    \/ DirectRejected
    \/ RegularResume
    \/ RegularAllocateItem
    \/ RegularRequestThrow
    \/ RegularRequestSkip
    \/ RegularItemsThrow
    \/ MLPostPredict
    \/ MLPredictReturn
    \/ MLPredictFail
    \/ MLNoOneShot
    \/ MLOneShotRun
    \/ MLOneShotSkip
    \/ MLReturn
    \/ MLRequestNoCron
    \/ MLCronInit
    \/ MLCronTick
    \/ MLCronDone
    \/ MLPlannerReturn
    \/ MLPlannerFail
    \/ MLAllocateItem
    \/ MLRequestThrow
    \/ MLRequestSkip
    \/ MLItemsThrow
    \/ RegularRankThrow
    \/ MLRankThrow

SpecDirect == InitDirect /\ [][NextDirect]_vars

\* ------------------------------------------------------------------------
\* Claims about the allocation runs (checked under Spec)
\* ------------------------------------------------------------------------
\* the kg a list of allocations takes from original batch k and from the
\* batches split off it (the first element of a batchId is the original)
AllocatedFrom(allocations, k) ==
    SumSeq([ a \in DOMAIN allocations |->
               SumSeq([ j \in DOMAIN allocations[a].batches |->
                          IF allocations[a].batches[j].batchId[1] = k
                          THEN allocations[a].batches[j].quantity ELSE 0 ]) ])

TotalAllocated(allocations) ==
    SumSeq([ a \in DOMAIN allocations |-> allocations[a].allocated_kg ])

NoDoubleCounting(allocations) ==
    /\ TotalAllocated(allocations)
         <= SumSeq([ k \in DOMAIN cfg.batches |-> cfg.batches[k].quantity_kg ])
    /\ \A k \in DOMAIN cfg.batches :
         AllocatedFrom(allocations, k) <= cfg.batches[k].quantity_kg

\* C1: within one allocation run, whatever transfers are applied in between,
\* the total kg over all Allocation records never exceeds the total stored kg
\* of the initial snapshot, and the kg allocated from an original batch and
\* the batches split off it never exceeds that batch's initial quantity.
C1_NoDoubleCounting ==
    /\ NoDoubleCounting(reg.allocations)
    /\ NoDoubleCounting(ml.allocations)

\* the line items of a list of requests, in processing order
LineItems(reqs) ==
    LET f[r \in 0 .. Len(reqs)] ==
            IF r = 0 THEN <<>>
            ELSE f[r - 1] \o [ i \in DOMAIN reqs[r].items |->
                                 [ request |-> reqs[r], item |-> reqs[r].items[i] ] ]
    IN  f[Len(reqs)]

\* allocateRegular run alone on the initial snapshot
RegularAlone(lines, options) ==
    LET f[n \in 0 .. Len(lines)] ==
            IF n = 0
            THEN [ heap |-> cfg.batches, unused |-> Fetched,
                   allocations |-> <<>>, threw |-> FALSE ]
            ELSE RegularItem(f[n - 1].heap, f[n - 1].unused, f[n - 1].allocations,
                             lines[n].request, lines[n].item, options, TargetDate)
    IN  f[Len(lines)].allocations

\* the request loop of allocateML run alone on a snapshot, without
\* transfer planning
MLFrom(heap0, unused0, lines, options, anomaly) ==
    LET f[n \in 0 .. Len(lines)] ==
            IF n = 0
            THEN [ heap |-> heap0, unused |-> unused0,
                   allocations |-> <<>>, threw |-> FALSE ]
            ELSE MLItem(f[n - 1].heap, f[n - 1].unused, f[n - 1].allocations,
                        lines[n].request, lines[n].item, options, anomaly,
                        TargetDate)
    IN  f[Len(lines)].allocations

\* allocateML run alone on the initial snapshot, the transfer planner off
MLAlone(lines, options, anomaly) ==
    MLFrom(cfg.batches, Fetched, lines, options, anomaly)

\* allocations as the program's records, without the object identities
Records(allocations) ==
    [ a \in DOMAIN allocations |->
        [ allocations[a] EXCEPT
            !.batches = [ j \in DOMAIN allocations[a].batches |->
                            [ batchId |-> allocations[a].batches[j].batchId,
                              quantity |-> allocations[a].batches[j].quantity,
                              freshness |-> allocations[a].batches[j].freshness ] ] ] ]

\* C2: when both strategies are run for a comparison, no quantity reduction
\* made by one is visible to the other: the allocations each strategy
\* returns equal the allocations it produces when run alone on the initial
\* snapshot (for allocateML: with the same anomaly signal, and stated for
\* the runs without transfer planning), for every interleaving.
C2_StrategiesIndependent ==
    /\ (reg.pc = "done" /\ ctl.pc # "finished")
         => Records(reg.allocations)
              = Records(RegularAlone(LineItems(reg.requests), reg.options))
    /\ (ml.pc = "done" /\ ctl.pc # "finished"
          /\ ~canUseTransferPlanner(ml.options))
         => Records(ml.allocations)
              = Records(MLAlone(LineItems(ml.requests), ml.options, ml.anomaly))

\* the freshness, at the delivery time of its allocation, of the batch
\* an entry was taken from
FreshnessAtDelivery(alloc, used) ==
    calculateFreshnessPct(heap[used.obj],
                          alloc.dispatchTime + estimateTravelHours(alloc.distance_km),
                          DefaultAvgTemp)

NoneSpoiledAtDelivery(allocations) ==
    \A a \in DOMAIN allocations :
        \A j \in DOMAIN allocations[a].batches :
            FreshnessAtDelivery(allocations[a], allocations[a].batches[j]) > 0

\* C3: no Allocation of either strategy lists a batch whose freshness at the
\* delivery time (dispatch time plus the estimated travel time from the
\* source warehouse) is <= 0, unless the override REGULAR_ALLOW_SPOILED is
\* set: stated for the allocations the controllers pass on.
C3_NoSpoiledAtDelivery ==
    (ctl.pc = "finished" /\ ~ctl.allowSpoiledRegular)
        => /\ NoneSpoiledAtDelivery(ctl.regular)
           /\ NoneSpoiledAtDelivery(ctl.ml)

WithinBounds(allocations) ==
    \A a \in DOMAIN allocations :
        /\ allocations[a].allocated_kg <= allocations[a].required_kg
        /\ allocations[a].allocated_kg
             <= SumSeq([ j \in DOMAIN allocations[a].batches |->
                           allocations[a].batches[j].quantity ])

\* C4: for every Allocation record of allocateRegular and of allocateML,
\* allocated_kg <= required_kg and allocated_kg <= the sum of the quantities
\* of the batch entries the record lists.
C4_AllocatedWithinBounds ==
    /\ WithinBounds(reg.allocations)
    /\ WithinBounds(ml.allocations)
    /\ WithinBounds(ctl.regular)
    /\ WithinBounds(ctl.ml)

\* both strategies have allocated: one record that covers its line in full
\* from two batches, one that the chosen warehouse covers only in part
C4_Witness ==
    /\ \E a \in DOMAIN reg.allocations :
         /\ reg.allocations[a].allocated_kg = reg.allocations[a].required_kg
         /\ Len(reg.allocations[a].batches) = 2
    /\ \E a \in DOMAIN ml.allocations :
         /\ ml.allocations[a].allocated_kg > 0
         /\ ml.allocations[a].allocated_kg < ml.allocations[a].required_kg

QuantitiesInRange(unused) ==
    \A p \in DOMAIN unused :
        /\ heap[unused[p]].quantity_kg >= 0
        /\ heap[unused[p]].quantity_kg <= entry[unused[p]]

\* C5: in every state of an allocation run every batch of the working
\* snapshot has a quantity >= 0 and <= the quantity it had when it entered
\* the snapshot (a split child: <= its parent's quantity before the split).
C5_QuantitiesInRange ==
    /\ QuantitiesInRange(reg.unused)
    /\ QuantitiesInRange(ml.unused)

\* C6: whenever applyWarehouseTransfersToBatches splits a batch of quantity
\* Q to move k < Q, the retained parent has Q - k and the new child exactly
\* k (together Q), the child is at the target, and the child's food type,
\* manufacture date, shelf life, temperature and status equal the parent's.
C6_SplitConserves ==
    [][ (ml.pc = "awaitPlanner" /\ ml'.debug.runs = ml.debug.runs + 1)
          => \A k \in DOMAIN ml'.splits :
               LET s == ml'.splits[k]
                   parent == heap'[s.parent]
                   child == heap'[s.child]
               IN  /\ s.takeQty < s.before.quantity_kg
                   /\ parent.quantity_kg = s.before.quantity_kg - s.takeQty
                   /\ child.quantity_kg = s.takeQty
                   /\ parent.quantity_kg + child.quantity_kg
                        = s.before.quantity_kg
                   /\ parent.currentNode = s.before.currentNode
                   /\ child.currentNode = s.target
                   /\ child.foodType = s.before.foodType
                   /\ child.manufacture_date = s.before.manufacture_date
                   /\ child.shelf_life_hours = s.before.shelf_life_hours
                   /\ child.initial_temp_c = s.before.initial_temp_c
                   /\ child.status = s.before.status ]_vars

\* a 100 kg batch has just got a 30 kg suggestion: 70 kg stay at the
\* source, a 30 kg child is at the target
C6_Witness ==
    /\ ml.pc = "request"
    /\ \E k \in DOMAIN ml.splits :
         /\ ml.splits[k].before.quantity_kg = 100
         /\ ml.splits[k].takeQty = 30
         /\ heap[ml.splits[k].parent].quantity_kg = 70
         /\ heap[ml.splits[k].child].quantity_kg = 30
         /\ heap[ml.splits[k].child].currentNode = ml.splits[k].target
         /\ heap[ml.splits[k].parent].currentNode # ml.splits[k].target
         /\ ml.debug.lastApplied # <<>>

\* the warehouses that hold a batch the baseline may use for a line item
HoldsEligible(w, item, dispatchTime) ==
    \E p \in DOMAIN reg.unused :
        EligibleRegular(heap[reg.unused[p]], w._id, item.foodType, dispatchTime)

EligibleKgAt(w, item, dispatchTime) ==
    SumSeq([ p \in DOMAIN reg.unused |->
               IF EligibleRegular(heap[reg.unused[p]], w._id, item.foodType,
                                  dispatchTime)
               THEN heap[reg.unused[p]].quantity_kg ELSE 0 ])

\* what a step of the baseline for one line item may do, given the
\* nearest warehouse w that holds an eligible batch
DrawsOnlyFrom(w, item, dispatchTime) ==
    /\ Len(reg'.allocations) = Len(reg.allocations) + 1
    /\ LET new == reg'.allocations[Len(reg'.allocations)]
       IN  /\ new.warehouse = w._id
           /\ new.allocated_kg
                = Min(item.required_kg, EligibleKgAt(w, item, dispatchTime))
           /\ \A j \in DOMAIN new.batches :
                heap[new.batches[j].obj].currentNode = w._id
    /\ \A u \in DOMAIN heap : heap[u].currentNode # w._id => heap'[u] = heap[u]
    /\ \A p \in DOMAIN reg.unused :
         heap[reg.unused[p]].currentNode # w._id
           => \E q \in DOMAIN reg'.unused : reg'.unused[q] = reg.unused[p]

\* C10: for each line item the baseline draws only from the nearest
\* warehouse that holds at least one eligible batch of the food type, also
\* when that warehouse cannot cover the requirement: the stock of every
\* other warehouse is left unchanged (60 kg at the nearer A and 100 kg at
\* the farther B: a 100 kg request gets 60 kg from A).
C10_NearestEligibleOnly ==
    [][ (running = "regular" /\ reg.pc = "items")
          => LET request == reg.requests[reg.r]
                 item == request.items[reg.i]
                 dispatchTime == ClampDispatch(RequestTime(request, TargetDate),
                                               reg.options)
                 ngoNode == RequesterNode(request)[1]
                 holders == { k \in DOMAIN WarehouseNodes :
                                HoldsEligible(WarehouseNodes[k], item, dispatchTime) }
                 nearest == { k \in holders :
                                \A j \in holders :
                                  haversineDistanceKm(ngoNode, WarehouseNodes[k])
                                    <= haversineDistanceKm(ngoNode, WarehouseNodes[j]) }
             IN  IF holders = {}
                 THEN reg'.allocations = reg.allocations /\ heap' = heap
                 ELSE \E k \in nearest :
                        DrawsOnlyFrom(WarehouseNodes[k], item, dispatchTime) ]_vars

\* 60 kg at the nearer W1 and 100 kg at the farther W3: the first request,
\* of 100 kg, has got 60 kg from W1 and the 100 kg at W3 are untouched
C10_Witness ==
    /\ cfg.batches[1].currentNode = "W3"
    /\ cfg.batches[2].currentNode = "W1"
    /\ cfg.requests[1].items[1].required_kg = 100
    /\ Len(reg.allocations) = 1
    /\ reg.allocations[1].warehouse = "W1"
    /\ reg.allocations[1].allocated_kg = 60
    /\ \E p \in DOMAIN reg.unused :
         /\ heap[reg.unused[p]].currentNode = "W3"
         /\ heap[reg.unused[p]].quantity_kg = 100
    /\ \A p \in DOMAIN reg.unused : heap[reg.unused[p]].currentNode # "W1"


\* the warehouses the batches of an Allocation record stand at
SourcesOf(alloc) ==
    { heap[alloc.batches[j].obj].currentNode : j \in DOMAIN alloc.batches }

\* Scenario 2: 100 kg at the farther W3, 60 kg at the nearer W1, both
\* eligible, and a first request of one 100 kg line
Scenario2 ==
    /\ cfg.batches[1].currentNode = "W3"
    /\ cfg.batches[2].currentNode = "W1"
    /\ cfg.batches[1].shelf_life_hours = 0
    /\ cfg.requests[1].items[1].required_kg = 100

OneShotRerun(clock) ==
    LET met == ml.answers[1]
        applied == applyWarehouseTransfersToBatches(
                       met.heap, met.entry, met.unused, met.transfers,
                       PlannerCurrentDate(NoDate, ml.options, clock))
    IN  MLFrom(applied.heap, applied.batches, LineItems(ml.requests),
               ml.options, ml.anomaly)

\* C12: re-running allocateML on an unchanged snapshot with identical
\* requests, nodes, options and identical external responses yields an
\* identical list of Allocation records.  Stated for the runs of
\* simulateAllocations (allocateML has the snapshot for itself) with one-shot
\* planning: the records returned equal the records of a second run that
\* gets the same planner answer and anomaly signal, whenever it is run.
C12_RerunIdentical ==
    (/\ cfg.mode = "simulate"
     /\ ml.pc = "done"
     /\ ctl.pc = "ml"
     /\ canUseTransferPlanner(ml.options)
     /\ ~useTransferPlannerCron(ml.options)
     /\ Len(ml.answers) = 1)
        => \A clock \in WallClockTimes :
             Records(ml.allocations) = Records(OneShotRerun(clock))


\* at least one warehouse at or above the overstock ratio and at least one
\* at or below the understock ratio (inventory * 100 against ratio *
\* capacity: the comparison of the utilization without rounding)
Imbalanced ==
    /\ \E k \in DOMAIN WarehouseNodes :
         InventoryAt(heap, ml.unused, WarehouseNodes[k]._id) * 100
           >= ml.options.transferPlannerOverstockRatio
                * CapacityOf(WarehouseNodes[k])
    /\ \E k \in DOMAIN WarehouseNodes :
         InventoryAt(heap, ml.unused, WarehouseNodes[k]._id) * 100
           <= ml.options.transferPlannerUnderstockRatio
                * CapacityOf(WarehouseNodes[k])

\* a snapshot of the examples: q2 kg at W2 and q3 kg at W3 (capacity 200 kg
\* each), W1 empty
ExampleStock(q2, q3) ==
    << [ _id |-> <<1>>, foodType |-> "rice", status |-> "stored",
         currentNode |-> "W2", quantity_kg |-> q2, manufacture_date |-> NoDate,
         shelf_life_hours |-> 0, initial_temp_c |-> 20 ],
       [ _id |-> <<2>>, foodType |-> "rice", status |-> "stored",
         currentNode |-> "W3", quantity_kg |-> q3, manufacture_date |-> NoDate,
         shelf_life_hours |-> 0, initial_temp_c |-> 20 ] >>

\* a step of allocateML at a planning point: the run is attempted or skipped
PlanningStep ==
    ml'.debug.attemptedRuns + ml'.debug.skippedRuns
      = ml.debug.attemptedRuns + ml.debug.skippedRuns + 1

\* C13: at each planning point the planner is called if and only if at
\* least one warehouse has utilization >= the overstock ratio and at least
\* one has utilization <= the understock ratio; otherwise the run is skipped
\* without a call, skippedRuns is incremented and a timeline entry with
\* skipped = true and the imbalance statistics is recorded.  90 % and 20 %
\* with ratios 0.8 / 0.4 attempts, 50 % and 50 % skips.
C13_AttemptIffImbalanced ==
    [][ /\ PlanningStep =>
            IF Imbalanced
            THEN /\ ml'.pc = "awaitPlanner"
                 /\ ml'.debug.attemptedRuns = ml.debug.attemptedRuns + 1
                 /\ ml'.debug.skippedRuns = ml.debug.skippedRuns
                 /\ ml'.debug.timeline = ml.debug.timeline
            ELSE /\ ml'.pc # "awaitPlanner"
                 /\ ml'.debug.attemptedRuns = ml.debug.attemptedRuns
                 /\ ml'.debug.skippedRuns = ml.debug.skippedRuns + 1
                 /\ Len(ml'.debug.timeline) = Len(ml.debug.timeline) + 1
                 /\ ml'.debug.timeline[Len(ml'.debug.timeline)].skipped
                 /\ ~ml'.debug.timeline[Len(ml'.debug.timeline)].attempted
                 /\ ml'.debug.timeline[Len(ml'.debug.timeline)].imbalance
                      = << [ warehouses |-> Len(WarehouseNodes),
                             overCount |->
                                 Cardinality({ k \in DOMAIN WarehouseNodes :
                                     InventoryAt(heap, ml.unused, WarehouseNodes[k]._id) * 100
                                       >= ml.options.transferPlannerOverstockRatio
                                            * CapacityOf(WarehouseNodes[k]) }),
                             underCount |->
                                 Cardinality({ k \in DOMAIN WarehouseNodes :
                                     InventoryAt(heap, ml.unused, WarehouseNodes[k]._id) * 100
                                       <= ml.options.transferPlannerUnderstockRatio
                                            * CapacityOf(WarehouseNodes[k]) }) ] >>
        /\ (ml'.pc = "awaitPlanner" /\ ml.pc # "awaitPlanner") => PlanningStep
        /\ shouldRunTransferPlanner(ExampleStock(180, 40), <<1, 2>>, NoOptions)
        /\ ~shouldRunTransferPlanner(ExampleStock(100, 100), <<1, 2>>, NoOptions)
      ]_vars

\* a run in which the planner was called at one planning point and skipped
\* at a later one
C13_Witness ==
    /\ ml.debug.attemptedRuns >= 1
    /\ ml.debug.skippedRuns >= 1
    /\ Len(ml.debug.timeline) >= 2
    /\ ml.debug.timeline[Len(ml.debug.timeline)].skipped
    /\ ~Imbalanced


\* a planning cycle ends without an answer applied: the call failed
PlannerFailStep ==
    /\ ml.pc = "awaitPlanner"
    /\ ml'.pc # "awaitPlanner"
    /\ ml'.debug.runs = ml.debug.runs

\* C14: if the planner call fails or times out in a planning cycle, the
\* inventory snapshot after the cycle equals the snapshot before it, the
\* failure is recorded (errorRuns incremented, lastError set, a timeline
\* entry with appliedCount 0) and the allocation goes on with the request it
\* was at, nothing of what was allocated before being lost.
C14_PlannerFailureKeepsSnapshot ==
    [][ PlannerFailStep =>
          /\ heap' = heap
          /\ entry' = entry
          /\ ml'.unused = ml.unused
          /\ ml'.debug.errorRuns = ml.debug.errorRuns + 1
          /\ ml'.debug.lastError # <<>>
          /\ Len(ml'.debug.timeline) = Len(ml.debug.timeline) + 1
          /\ ml'.debug.timeline[Len(ml'.debug.timeline)].appliedCount = 0
          /\ ml'.debug.timeline[Len(ml'.debug.timeline)].appliedKg = 0
          /\ ml'.debug.timeline[Len(ml'.debug.timeline)].error
          /\ ml'.debug.appliedTransfers = ml.debug.appliedTransfers
          /\ ml'.pc = "request"
          /\ running' = "ml"
          /\ ml'.r = ml.r
          /\ ml'.requests = ml.requests
          /\ ml'.allocations = ml.allocations
      ]_vars

\* a planner call failed at the first request and allocateML went on to
\* allocate that request and the next one
C14_Witness ==
    /\ ml.debug.errorRuns >= 1
    /\ ml.debug.runs = 0
    /\ ml.pc = "done"
    /\ Len(ml.allocations) = 2
    /\ ml.allocations[1].requestId = "R1"
    /\ ml.allocations[2].requestId = "R2"
    /\ ml.allocations[2].allocated_kg > 0


\* C15: if the demand-signal call fails or times out, allocateML does not
\* abort: it continues exactly as after an answer with an empty signal list
\* (no anomaly, urgency boost 1.0 for every request), every request is
\* processed, and the allocations equal those produced with an empty signal
\* list (compared with the run alone where allocateML has the snapshot for
\* itself and no planner answer enters).
C15_PredictFailureIsEmptySignal ==
    [][ /\ (ml.pc = "awaitPredict" /\ ml'.predictFailed)
             => /\ [ ml' EXCEPT !.predictFailed = FALSE ]
                     = [ ml EXCEPT !.pc = "planner", !.anomaly = FALSE ]
                /\ running' = "ml"
                /\ UNCHANGED <<heap, entry, reg, ctl>>
        /\ ml.predictFailed
             => /\ ~ml.anomaly
                /\ ml.pc # "threw"
                /\ (ml.pc = "done" => ml.r = Len(ml.requests) + 1)
        /\ (/\ ml.predictFailed
            /\ ml.pc = "done"
            /\ cfg.mode = "simulate"
            /\ ~canUseTransferPlanner(ml.options))
             => Records(ml.allocations)
                  = Records(MLAlone(LineItems(ml.requests), ml.options, FALSE))
      ]_vars

\* the demand-signal call failed and allocateML returned allocations for
\* both requests
C15_Witness ==
    /\ ml.predictFailed
    /\ ml.pc = "done"
    /\ ctl.pc = "ml"
    /\ ~canUseTransferPlanner(ml.options)
    /\ Len(ml.allocations) = 2
    /\ ml.allocations[1].allocated_kg > 0
    /\ ml.allocations[2].allocated_kg > 0


\* the diagnostic trace returned with the run holds a record of a failure
ErrorInTrace ==
    \/ ml.debug.errorRuns >= 1
    \/ ml.debug.lastError # <<>>
    \/ \E k \in DOMAIN ml.debug.timeline : ml.debug.timeline[k].error

\* C16: a failure or timeout of either external service (the demand-signal
\* call as well as the transfer-planner call) is recorded in the diagnostic
\* trace returned with the run and is never propagated to the caller as an
\* error.
C16_FailuresRecorded ==
    /\ ml.pc # "threw"
    /\ (ml.pc = "done" /\ ml.debug.attemptedRuns > ml.debug.runs)
         => ErrorInTrace
    /\ (ml.pc = "done" /\ ml.predictFailed) => ErrorInTrace


\* the cron interval in minutes, and the dispatch time of the k-th request
\* in processing order (no request of these runs lacks a timestamp)
CronInterval == ml.options.transferPlannerCronHours * HourMin

DispatchOf(k) == MLDispatchTime(ml.requests[k], ml.options, TargetDate)

\* the anchor: the reference date, else the floor of the window, else the
\* dispatch time of the first request processed
ScheduleAnchor ==
    IF ml.options.referenceDate # NoDate THEN ml.options.referenceDate
    ELSE IF ml.options.dispatchTimeFloor # NoDate
    THEN ml.options.dispatchTimeFloor
    ELSE DispatchOf(1)

\* the planning runs recorded or under way are those of the boundaries
\* anchor, anchor + H, anchor + 2H, ... in this order
RunsOnBoundaries ==
    /\ Len(ml.debug.timeline)
         = ml.cronRuns - (IF ml.pc = "awaitPlanner" THEN 1 ELSE 0)
    /\ \A k \in DOMAIN ml.debug.timeline :
         ml.debug.timeline[k].at = ScheduleAnchor + (k - 1) * CronInterval
    /\ ml.debug.attemptedRuns + ml.debug.skippedRuns = ml.cronRuns
    /\ ml.cronRuns >= 1
         => ml.nextCronRunAt = ScheduleAnchor + (ml.cronRuns - 1) * CronInterval
    /\ (ml.pc = "awaitPlanner")
         => ml.call.now = ScheduleAnchor + (ml.cronRuns - 1) * CronInterval

OneShotConfigured ==
    ml.options.enableTransferPlanner /\ ml.options.transferPlannerCronHours = 0

\* every batch object is at the warehouse its fetched original is at (the
\* clones follow the fetched batches in the heap, in the same order)
NoBatchMoved ==
    /\ Len(heap) <= 3 * Len(cfg.batches)
    /\ \A k \in DOMAIN heap :
         heap[k].currentNode
           = cfg.batches[((k - 1) % Len(cfg.batches)) + 1].currentNode

\* C18: when the transfer planner is enabled and no cron interval is
\* configured, planning (attempted or skipped) happens at most once in a run
\* and before the first request is allocated; when the planner is not
\* enabled, no planning run happens and no batch changes location.
C18_OneShotOnceBeforeAllocation ==
    [][ /\ (ml.pc # "idle" /\ OneShotConfigured)
             => /\ ml.debug.attemptedRuns + ml.debug.skippedRuns <= 1
                /\ ml.cronRuns = 0
                /\ Len(ml.debug.timeline) <= 1
                /\ PlanningStep
                     => /\ ml.allocations = <<>>
                        /\ ml.pc = "planner"
                        /\ ml'.allocations = <<>>
                /\ ml.pc = "awaitPlanner" => ml.allocations = <<>>
                /\ ml.pc \in {"request", "items", "done"}
                     => ml.debug.attemptedRuns + ml.debug.skippedRuns = 1
        /\ (ml.pc # "idle" /\ ~ml.options.enableTransferPlanner)
             => /\ ml.debug.attemptedRuns = 0
                /\ ml.debug.skippedRuns = 0
                /\ ml.debug.timeline = <<>>
                /\ ml.pc # "awaitPlanner"
                /\ ~PlanningStep
        /\ ~cfg.enableTransferPlanner => NoBatchMoved /\ NoBatchMoved'
      ]_vars

\* a one-shot run: the planner was called once, its answer moved stock, and
\* both requests were allocated afterwards
C18_Witness ==
    /\ OneShotConfigured
    /\ ml.pc = "done"
    /\ ml.debug.attemptedRuns = 1
    /\ ml.debug.appliedTransfers = 1
    /\ ~NoBatchMoved
    /\ Len(ml.allocations) = 2


\* ------------------------------------------------------------------------
\* Claims about the allocators called directly (checked under SpecDirect)
\* ------------------------------------------------------------------------
NonDecreasing(s) ==
    \A i, j \in DOMAIN s : i < j => s[i] <= s[j]

\* C19: when periodic rebalancing is enabled, allocateML processes requests
\* in simulated-time order: the effective dispatch times (dispatchTime, else
\* createdOn, else now, then clamped) of successively processed requests are
\* non-decreasing, for every input order and also for requests lacking a
\* timestamp.
C19_SimulatedTimeOrder ==
    useTransferPlannerCron(ml.options) => NonDecreasing(ml.dispatched)

\* a request with an input error: no requesterNode or no items
HasInputError(request) ==
    request.requesterNode = "" \/ request.items = <<>>

\* the requests of a list the allocators can serve: no input error, and the
\* organisation and its node are found
Servable(reqs) ==
    FilterSeq(reqs, LAMBDA q : ~HasInputError(q) /\ RequesterNode(q) # <<>>)

AllTimed(reqs) ==
    \A k \in DOMAIN reqs : reqs[k].createdOn # NoDate

NoneForBadRequest(allocations, reqs) ==
    \A a \in DOMAIN allocations :
        \A k \in DOMAIN reqs :
            reqs[k].requestID = allocations[a].requestId
              => ~HasInputError(reqs[k])

\* C20: a request with an input error (here: no requesterNode, no items
\* list) is skipped and contributes no allocation, while every other request
\* of the list is still processed; neither allocator aborts the whole run
\* for one bad item.  The other requests being processed is stated as: the
\* allocations returned are those of the run on the list without the
\* requests that cannot be served (for allocateML without planner).
C20_BadRequestsSkipped ==
    /\ reg.pc # "threw"
    /\ ml.pc # "threw"
    /\ ctl.pc # "rejected"
    /\ NoneForBadRequest(reg.allocations, reg.requests)
    /\ NoneForBadRequest(ml.allocations, ml.requests)
    /\ (reg.pc = "done" /\ AllTimed(reg.requests))
         => Records(reg.allocations)
              = Records(RegularAlone(LineItems(Servable(reg.requests)),
                                     reg.options))
    /\ (ml.pc = "done" /\ AllTimed(ml.requests)
          /\ ~canUseTransferPlanner(ml.options))
         => Records(ml.allocations)
              = Records(MLAlone(LineItems(Servable(ml.requests)), ml.options,
                                ml.anomaly))


\* the requester has no matching demand-site record: no organisation with
\* the request's requesterNode, or no NGO node with the organisation's name
NoDemandSite(request) ==
    /\ request.requesterNode # ""
    /\ ~\E o \in DOMAIN NgoOrgs, n \in DOMAIN NgoNodes :
          /\ NgoOrgs[o]._id = request.requesterNode
          /\ NgoNodes[n].name = NgoOrgs[o].name

\* no warehouse has stock of the allocator's snapshot that is eligible for
\* a line item at the dispatch time (for allocateML: within the hard cap
\* and not spoiled on arrival)
NoStockRegular(unused0, foodType, dispatchTime) ==
    \A p \in DOMAIN unused0 :
        ~(/\ heap[unused0[p]].foodType = foodType
          /\ heap[unused0[p]].status = "stored"
          /\ \E w \in DOMAIN cfg.warehouses :
                heap[unused0[p]].currentNode = cfg.warehouses[w]._id
          /\ AvailableBy(heap[unused0[p]], dispatchTime)
          /\ safeRemainingShelfLifeHours(heap[unused0[p]], dispatchTime) > 0
          /\ calculateFreshnessPct(heap[unused0[p]], dispatchTime,
                                   DefaultAvgTemp) > 0)

NoStockML(unused0, foodType, dispatchTime, ngoNode) ==
    \A p \in DOMAIN unused0 :
        ~(/\ heap[unused0[p]].foodType = foodType
          /\ heap[unused0[p]].status = "stored"
          /\ AvailableBy(heap[unused0[p]], dispatchTime)
          /\ safeRemainingShelfLifeHours(heap[unused0[p]], dispatchTime) > 0
          /\ \E w \in DOMAIN cfg.warehouses :
                /\ heap[unused0[p]].currentNode = cfg.warehouses[w]._id
                /\ haversineDistanceKm(ngoNode, cfg.warehouses[w])
                     <= hardMaxDistanceKm
                /\ calculateFreshnessPct(
                       heap[unused0[p]],
                       dispatchTime
                         + estimateTravelHours(
                               haversineDistanceKm(ngoNode, cfg.warehouses[w])),
                       DefaultAvgTemp) > 0)

\* the step of allocateRegular / allocateML at a request without demand
\* site, and at a line item without eligible stock
RegularAtLookupMiss ==
    running = "regular" /\ reg.pc = "items" /\ NoDemandSite(reg.requests[reg.r])

MLAtLookupMiss ==
    /\ running = "ml" /\ ml.pc = "request" /\ ml.r <= Len(ml.requests)
    /\ NoDemandSite(ml.requests[ml.r])

RegularAtNoStock ==
    /\ running = "regular" /\ reg.pc = "items"
    /\ reg.requests[reg.r].requesterNode = "O1"
    /\ reg.i <= Len(reg.requests[reg.r].items)
    /\ \A now \in WallClockTimes :
         NoStockRegular(reg.unused, reg.requests[reg.r].items[reg.i].foodType,
                        ClampDispatch(RequestTime(reg.requests[reg.r], now),
                                      reg.options))

MLAtNoStock ==
    /\ running = "ml" /\ ml.pc = "items"
    /\ ml.i <= Len(ml.requests[ml.r].items)
    /\ NoStockML(ml.unused, ml.requests[ml.r].items[ml.i].foodType,
                 ml.dispatchTime, NgoNodes[1])

\* C21: a request whose requester has no matching demand-site record, or a
\* line item for which no warehouse has eligible stock, produces no
\* allocated kg and leaves the inventory snapshot unchanged, raises no
\* error, and the following line items and requests are processed normally
\* (the loop goes on to the next item or request, or returns).
C21_MissesSkipped ==
    [][ /\ RegularAtLookupMiss
             => /\ UNCHANGED <<heap, entry>>
                /\ reg'.unused = reg.unused
                /\ reg'.allocations = reg.allocations
                /\ reg'.r = reg.r + 1
                /\ reg'.pc = IF reg.r < Len(reg.requests) THEN "items" ELSE "done"
        /\ MLAtLookupMiss
             => /\ UNCHANGED <<heap, entry>>
                /\ ml'.unused = ml.unused
                /\ ml'.allocations = ml.allocations
                /\ ml'.debug = ml.debug
                /\ ml'.r = ml.r + 1
                /\ ml'.pc = "request"
        /\ RegularAtNoStock
             => /\ UNCHANGED <<heap, entry>>
                /\ reg'.unused = reg.unused
                /\ reg'.allocations = reg.allocations
                /\ reg'.pc = IF reg.i < Len(reg.requests[reg.r].items)
                                \/ reg.r < Len(reg.requests)
                             THEN "items" ELSE "done"
        /\ MLAtNoStock
             => /\ UNCHANGED <<heap, entry>>
                /\ ml'.unused = ml.unused
                /\ ml'.allocations = ml.allocations
                /\ ml'.pc = IF ml.i < Len(ml.requests[ml.r].items)
                            THEN "items" ELSE "request"
      ]_vars

\* a run in which the first request was passed over (no demand site, or no
\* stock of its food) and the second one was then allocated in full
C21_Witness ==
    /\ cfg.requests[1].requestID = "R1"
    /\ \/ NoDemandSite(cfg.requests[1])
       \/ /\ cfg.requests[1].items # <<>>
          /\ cfg.requests[1].items[1].foodType = "wheat"
    /\ ctl.pc = "finished"
    /\ \/ Len(ctl.regular) = 1 /\ ctl.regular[1].requestId = "R2"
                               /\ ctl.regular[1].allocated_kg = 100
       \/ Len(ctl.ml) = 1 /\ ctl.ml[1].requestId = "R2"
                          /\ ctl.ml[1].allocated_kg = 100


\* C22: a warehouse whose coordinates cannot be extracted is excluded from
\* the warehouse ranking, and the line items are still allocated from the
\* remaining warehouses; the failure does not abort the request or the run:
\* with complete requests for rice and rice in store, a call in which one
\* (empty) warehouse has no location is not rejected, and it ends with the
\* allocations of both requests.
C22_UnlocatedWarehouseExcluded ==
    /\ cfg.mode = "direct"
    /\ Unlocated(cfg.warehouses)
    /\ \A k \in DOMAIN cfg.requests : Complete(cfg.requests[k])
    => /\ reg.pc # "threw"
       /\ ml.pc # "threw"
       /\ ctl.pc # "rejected"
       /\ ctl.pc = "finished" => Len(ctl.regular) + Len(ctl.ml) = 2


\* the allocations of an allocator whose options give a window: each one's
\* dispatch time is the time of its request (dispatchTime, else createdOn,
\* else the wall clock) brought into [floor, ceiling]
WindowGiven(options) ==
    /\ options.dispatchTimeFloor # NoDate
    /\ options.dispatchTimeCeil # NoDate
    /\ options.dispatchTimeFloor <= options.dispatchTimeCeil

TimesOfRequest(requests, requestId) ==
    UNION { IF requests[k].dispatchTime # NoDate THEN { requests[k].dispatchTime }
            ELSE IF requests[k].createdOn # NoDate THEN { requests[k].createdOn }
            ELSE WallClockTimes :
            k \in { j \in DOMAIN requests : requests[j].requestID = requestId } }

Clamped(allocations, requests, options) ==
    \A a \in DOMAIN allocations :
        /\ options.dispatchTimeFloor <= allocations[a].dispatchTime
        /\ allocations[a].dispatchTime <= options.dispatchTimeCeil
        /\ \E t \in TimesOfRequest(requests, allocations[a].requestId) :
              allocations[a].dispatchTime
                = Min(Max(t, options.dispatchTimeFloor), options.dispatchTimeCeil)

\* C23: the dispatch time recorded on every Allocation is the request's
\* dispatch time (or creation time, or now) clamped to the configured
\* window: with a floor and a ceiling, floor <= ceiling, every Allocation
\* of allocateRegular and of allocateML has floor <= dispatchTime <= ceiling.
C23_DispatchClamped ==
    /\ WindowGiven(reg.options) => Clamped(reg.allocations, reg.requests, reg.options)
    /\ WindowGiven(ml.options) => Clamped(ml.allocations, ml.requests, ml.options)

\* both allocators have clamped: a request before the window dispatched at
\* the floor and one after it (or without a time) at the ceiling
C23_Witness ==
    /\ cfg.mode = "direct"
    /\ cfg.window # <<>>
    /\ \/ /\ ctl.pc = "finished" /\ Len(ctl.regular) = 2
          /\ { ctl.regular[a].dispatchTime : a \in {1, 2} }
               = { cfg.window[1], cfg.window[2] }
       \/ /\ ctl.pc = "finished" /\ Len(ctl.ml) = 2
          /\ { ctl.ml[a].dispatchTime : a \in {1, 2} }
               = { cfg.window[1], cfg.window[2] }


\* the batch entries of the Allocation a line-item step of allocateRegular
\* has just recorded, in the order they were consumed
NewRegularEntries ==
    IF running = "regular" /\ reg.pc = "items"
       /\ Len(reg'.allocations) = Len(reg.allocations) + 1
    THEN reg'.allocations[Len(reg'.allocations)].batches
    ELSE <<>>

RegularDispatchOfNew == reg'.allocations[Len(reg'.allocations)].dispatchTime

\* C28: within the chosen warehouse allocateRegular consumes batches in
\* ascending order of remaining shelf life at dispatch, ties broken by
\* ascending manufacture time: of two batches consumed for one line item
\* the one consumed first has remaining shelf life <= the other's, also
\* when perishable and non-perishable (infinite remaining life) batches
\* are mixed.
C28_ConsumedByRemainingLife ==
    [][ \A j, k \in DOMAIN NewRegularEntries :
          j < k =>
            LET first == heap[NewRegularEntries[j].obj]
                other == heap[NewRegularEntries[k].obj]
                rj == safeRemainingShelfLifeHours(first, RegularDispatchOfNew)
                rk == safeRemainingShelfLifeHours(other, RegularDispatchOfNew)
            IN  /\ rj <= rk
                /\ rj = rk /\ first.manufacture_date # NoDate
                           /\ other.manufacture_date # NoDate
                     => first.manufacture_date <= other.manufacture_date
      ]_vars

\* a step that applies a transfer suggestion: the planner has answered with
\* one.  The snapshot is copied, so the batch at place k of ml.unused is
\* afterwards the object at place k of ml'.unused; split children follow.
AppliesSuggestion ==
    /\ ml.pc = "awaitPlanner"
    /\ Len(ml'.answers) = Len(ml.answers) + 1
    /\ ml'.answers[Len(ml'.answers)].transfers # <<>>

SuggestionApplied == ml'.answers[Len(ml'.answers)].transfers[1]

BatchBefore(k) == heap[ml.unused[k]]

BatchAfter(k) == heap'[ml'.unused[k]]

MovedWhole(k) ==
    /\ BatchAfter(k).currentNode # BatchBefore(k).currentNode
    /\ BatchAfter(k).quantity_kg = BatchBefore(k).quantity_kg

SplitAt(k) ==
    /\ BatchAfter(k).currentNode = BatchBefore(k).currentNode
    /\ BatchAfter(k).quantity_kg < BatchBefore(k).quantity_kg

TakenAt(k) == MovedWhole(k) \/ SplitAt(k)

\* j is to be taken strictly before k at the time `when`: less remaining
\* shelf life, or as much and a larger quantity
TakenEarlier(j, k, when) ==
    LET lj == safeRemainingShelfLifeHours(BatchBefore(j), when)
        lk == safeRemainingShelfLifeHours(BatchBefore(k), when)
    IN  lj < lk \/ (lj = lk /\ BatchBefore(j).quantity_kg
                                 > BatchBefore(k).quantity_kg)

AtSource(k) ==
    /\ BatchBefore(k).status = "stored"
    /\ BatchBefore(k).quantity_kg > 0
    /\ BatchBefore(k).currentNode = SuggestionApplied.source

\* the dates the batches may be ranked at: the date of the cron run, else
\* the reference date, else the wall clock
RankedAt ==
    { PlannerCurrentDate(ml.call.now, ml.options, wallClock) :
        wallClock \in WallClockTimes }

\* C29: when a transfer suggestion is applied, source batches are taken in
\* ascending order of remaining shelf life, ties broken by descending
\* quantity, and only batches with status stored, quantity > 0 and
\* currentNode equal to the source are taken; at most one batch per
\* suggestion is split, the last one taken.
C29_TakeFromSourceOrder ==
    [][ AppliesSuggestion =>
          \E when \in RankedAt :
            /\ \A k \in DOMAIN ml.unused : TakenAt(k) => AtSource(k)
            /\ \A j, k \in DOMAIN ml.unused :
                  AtSource(j) /\ TakenAt(k) /\ TakenEarlier(j, k, when)
                    => MovedWhole(j)
            /\ Cardinality({ k \in DOMAIN ml.unused : SplitAt(k) }) <= 1
            /\ Len(ml'.unused) - Len(ml.unused)
                 = Cardinality({ k \in DOMAIN ml.unused : SplitAt(k) })
      ]_vars

\* a suggestion was applied by moving one batch whole and splitting the
\* next one, which had more shelf life left
C29_Witness ==
    /\ ml.answers # <<>>
    /\ Len(ml.splits) = 1
    /\ LET answer == ml.answers[Len(ml.answers)]
           split == ml.splits[1]
       IN  /\ answer.transfers # <<>>
           /\ Len(ml.unused) = Len(answer.unused) + 1
           /\ \E k \in DOMAIN answer.unused :
                 /\ heap[ml.unused[k]].currentNode = split.target
                 /\ answer.heap[answer.unused[k]].currentNode
                      = answer.transfers[1].source
                 /\ heap[ml.unused[k]].quantity_kg
                      = answer.heap[answer.unused[k]].quantity_kg
                 /\ safeRemainingShelfLifeHours(answer.heap[answer.unused[k]],
                                                TargetDate)
                      < safeRemainingShelfLifeHours(split.before, TargetDate)

\* the Allocation a line-item step of an allocator has just recorded
\* (<<>> when the step records none)
NewAllocation ==
    IF running = "regular" /\ reg.pc = "items"
       /\ Len(reg'.allocations) = Len(reg.allocations) + 1
    THEN << reg'.allocations[Len(reg'.allocations)] >>
    ELSE IF running = "ml" /\ ml.pc = "items"
            /\ Len(ml'.allocations) = Len(ml.allocations) + 1
    THEN << ml'.allocations[Len(ml'.allocations)] >>
    ELSE <<>>

\* the batch an entry refers to, as it was when the step selected it
Selected(e) == heap[e.obj]

\* C30: every batch entry of an Allocation (either strategy) refers to a
\* batch that at selection time had status stored, the line item's food
\* type, currentNode equal to the Allocation's source warehouse, and, when
\* it has a manufacture time, one <= the dispatch time; for the baseline it
\* additionally had remaining shelf life > 0 and freshness at dispatch > 0.
\* All entries of one Allocation come from that one warehouse.
C30_EntriesEligible ==
    [][ \A n \in DOMAIN NewAllocation :
          LET a == NewAllocation[n]
          IN  \A k \in DOMAIN a.batches :
                LET b == Selected(a.batches[k])
                IN  /\ b.status = "stored"
                    /\ b.foodType = a.foodType
                    /\ b.currentNode = a.warehouse
                    /\ b.manufacture_date # NoDate
                         => b.manufacture_date <= a.dispatchTime
                    /\ a.strategy = "regular"
                         => /\ safeRemainingShelfLifeHours(b, a.dispatchTime) > 0
                            /\ calculateFreshnessPct(b, a.dispatchTime,
                                                     DefaultAvgTemp) > 0
      ]_vars


\* the baseline has served the request at the start of the window from the
\* far warehouse, the nearest one holding only rice that was not made yet
\* and a reserved batch, and the request at its end from the nearest
C30_Witness ==
    /\ cfg.mode = "direct"
    /\ cfg.batches \in LateBatches
    /\ ctl.pc = "finished"
    /\ \E a, c \in DOMAIN ctl.regular :
         /\ ctl.regular[a].dispatchTime = SimulationStartTime
         /\ ctl.regular[a].warehouse = "W3"
         /\ ctl.regular[c].dispatchTime = TargetDate
         /\ ctl.regular[c].warehouse = "W1"
         /\ \A k \in DOMAIN ctl.regular[c].batches :
              cfg.batches[ctl.regular[c].batches[k].obj].status = "stored"


\* the stored kg at a node in a snapshot
StoredKg(heap0, refs, node) ==
    SumSeq([ k \in DOMAIN refs |->
               IF heap0[refs[k]].status = "stored"
                  /\ heap0[refs[k]].currentNode = node
               THEN heap0[refs[k]].quantity_kg ELSE 0 ])

StoredBefore(node) == StoredKg(heap, ml.unused, node)

StoredAfter(node) == StoredKg(heap', ml'.unused, node)

TransferNodes == { cfg.warehouses[k]._id : k \in DOMAIN cfg.warehouses }

\* a suggestion with a source, another node as target and a quantity > 0
WellFormed(s) ==
    /\ s.source # NoMongoId
    /\ s.target # NoMongoId
    /\ s.source # s.target
    /\ s.suggested_quantity_kg > 0

\* what the application reports
ReportedApplied == ml'.debug.lastApplied

\* the snapshot after the step holds what it held before
SnapshotUntouched ==
    /\ Len(ml'.unused) = Len(ml.unused)
    /\ \A k \in DOMAIN ml.unused : BatchAfter(k) = BatchBefore(k)

\* the stock moved by the step is m kg from S to T and nothing else
MovesStock(s, m) ==
    /\ StoredAfter(s.source) = StoredBefore(s.source) - m
    /\ StoredAfter(s.target) = StoredBefore(s.target) + m
    /\ \A n \in TransferNodes \ { s.source, s.target } :
         StoredAfter(n) = StoredBefore(n)
    /\ \A k \in DOMAIN ml.unused :
         \/ BatchAfter(k) = BatchBefore(k)
         \/ BatchAfter(k) = [ BatchBefore(k) EXCEPT !.currentNode = s.target ]
         \/ /\ SplitAt(k)
            /\ \E c \in (Len(ml.unused) + 1) .. Len(ml'.unused) :
                 /\ BatchAfter(c).currentNode = s.target
                 /\ BatchAfter(c).quantity_kg
                      = BatchBefore(k).quantity_kg - BatchAfter(k).quantity_kg

ReportsApplied(s, m) ==
    /\ Len(ReportedApplied) = 1
    /\ ReportedApplied[1].sourceWarehouseId = s.source
    /\ ReportedApplied[1].targetWarehouseId = s.target
    /\ ReportedApplied[1].applied_quantity_kg = m
    /\ m <= s.suggested_quantity_kg

C32_DistinctIdentifiers ==
    \A j, k \in DOMAIN ml.unused :
        j # k => heap[ml.unused[j]]._id # heap[ml.unused[k]]._id


\* a step on which the planner's answer, with or without suggestions, is
\* given to applyWarehouseTransfersToBatches
AppliesAnswer ==
    /\ ml.pc = "awaitPlanner"
    /\ Len(ml'.answers) = Len(ml.answers) + 1

\* what a transfer leaves alone in a batch
SameButPlaceAndQuantity(after, before) ==
    after = [ before EXCEPT !.currentNode = after.currentNode,
                            !.quantity_kg = after.quantity_kg ]

\* C35: applying transfers changes only the currentNode and quantity of
\* batches (plus the creation of split children): no batch's status, food
\* type, manufacture date or shelf life is changed, no batch is removed,
\* and the batch list and batch objects passed in by the caller are left
\* unmodified (the function works on a copy and returns it).
C35_TransfersFrame ==
    [][ AppliesAnswer =>
          /\ Len(heap') >= Len(heap)
          /\ \A i \in DOMAIN heap : heap'[i] = heap[i]
          /\ Len(ml'.unused) >= Len(ml.unused)
          /\ \A k \in DOMAIN ml.unused :
               SameButPlaceAndQuantity(BatchAfter(k), BatchBefore(k))
          /\ \A c \in (Len(ml.unused) + 1) .. Len(ml'.unused) :
               \E k \in DOMAIN ml.unused :
                   /\ SplitAt(k)
                   /\ [ BatchAfter(c) EXCEPT !._id = BatchBefore(k)._id ]
                        = [ BatchBefore(k) EXCEPT
                              !.currentNode = BatchAfter(c).currentNode,
                              !.quantity_kg = BatchAfter(c).quantity_kg ]
          /\ ml'.answers[Len(ml'.answers)].transfers # <<>>
               => \A k \in DOMAIN ml'.unused : ml'.unused[k] > Len(heap)
      ]_vars

\* suggestions were applied to a copy: a batch was split, and the batches
\* the caller passed in are still where and what they were
C35_Witness ==
    /\ ml.answers # <<>>
    /\ ml.pc = "request"
    /\ Len(ml.splits) = 1
    /\ LET answer == ml.answers[Len(ml.answers)]
       IN  /\ Len(ml.unused) = Len(answer.unused) + 1
           /\ \A k \in DOMAIN answer.unused :
                 /\ heap[answer.unused[k]] = answer.heap[answer.unused[k]]
                 /\ ml.unused[k] # answer.unused[k]
           /\ \E k \in DOMAIN answer.unused :
                 heap[ml.unused[k]].quantity_kg
                   < heap[answer.unused[k]].quantity_kg

\* ------------------------------------------------------------------------
\* Claims about the scoring of allocateML (checked under Spec): what
\* evaluateCandidates computes for the line item allocateML is at
\* ------------------------------------------------------------------------
MLAtItem ==
    /\ running = "ml"
    /\ ml.pc = "items"
    /\ ml.i <= Len(ml.requests[ml.r].items)
    /\ ~Unlocated(cfg.warehouses)

MLItemNow == ml.requests[ml.r].items[ml.i]

\* freshness on arrival from candidate warehouse c of the batch at u
ArrivalFreshness(u, c) ==
    calculateFreshnessPct(heap[u],
                          ml.dispatchTime + estimateTravelHours(c.distance),
                          DefaultAvgTemp)

\* the batches of the snapshot a candidate warehouse can send
Sendable(c) ==
    { u \in { ml.unused[p] : p \in DOMAIN ml.unused } :
        /\ heap[u].foodType = MLItemNow.foodType
        /\ heap[u].currentNode = c.warehouse._id
        /\ heap[u].status = "stored"
        /\ AvailableBy(heap[u], ml.dispatchTime)
        /\ safeRemainingShelfLifeHours(heap[u], ml.dispatchTime) > 0
        /\ ArrivalFreshness(u, c) > 0 }

\* the threshold of the first tier that is not empty at c
TierThreshold(c) ==
    IF \E u \in Sendable(c) : ArrivalFreshness(u, c) >= 5500 THEN 5500
    ELSE IF \E u \in Sendable(c) : ArrivalFreshness(u, c) >= 2500 THEN 2500
    ELSE 1

\* the candidate evaluateCandidates builds for warehouse c
EvaluatedAt(c) ==
    ScoredCandidate(heap, c,
                    ChooseTier(CandidateBatches(
                        heap, ml.unused, c.warehouse._id, MLItemNow.foodType,
                        ml.dispatchTime,
                        ml.dispatchTime + estimateTravelHours(c.distance))),
                    MLItemNow.required_kg, ml.anomaly)

\* the score of a batch list before the tier's penalty
Unpenalised(c, batches) ==
    Boosted(BaseScore(WeightedSums(heap, batches, MLItemNow.required_kg),
                      Min(MLItemNow.required_kg, TotalAvailable(heap, batches)),
                      c.distance, MLItemNow.required_kg),
            ml.anomaly)

TierRespected(c) ==
    LET cand == EvaluatedAt(c)
        used == { cand.batches[k].batch : k \in DOMAIN cand.batches }
    IN  /\ used = { u \in Sendable(c) : ArrivalFreshness(u, c) >= TierThreshold(c) }
        /\ Len(cand.batches) = Cardinality(used)
        /\ cand.score
             = CASE TierThreshold(c) = 5500 -> Unpenalised(c, cand.batches)
                 [] TierThreshold(c) = 2500 ->
                        (Unpenalised(c, cand.batches) * 98) \div 100
                 [] OTHER -> (Unpenalised(c, cand.batches) * 95) \div 100

\* C25: at each candidate warehouse allocateML uses exactly the first
\* non-empty tier in the order strict (freshness at delivery >= 55 %),
\* relaxed (>= 25 %), fallback (> 0): every batch of the candidate's list
\* meets the threshold of the tier used, no batch of a lower tier is added
\* while a higher tier is non-empty, and the score is multiplied by 0.98
\* when the relaxed tier is used and by 0.95 when the fallback tier is.
C25_FirstNonEmptyTier ==
    MLAtItem =>
        \A k \in DOMAIN AllWarehouseCandidates(NgoNodes[1]) :
            LET c == AllWarehouseCandidates(NgoNodes[1])[k]
            IN  Sendable(c) # {} => TierRespected(c)

\* a line item at which one warehouse is below the strict tier (its score
\* is penalised) and another is in the strict tier and leaves out a batch
\* that is below it
C25_Witness ==
    /\ MLAtItem
    /\ \E k \in DOMAIN AllWarehouseCandidates(NgoNodes[1]) :
          LET c == AllWarehouseCandidates(NgoNodes[1])[k]
          IN  Sendable(c) # {} /\ TierThreshold(c) < 5500
    /\ \E k \in DOMAIN AllWarehouseCandidates(NgoNodes[1]) :
          LET c == AllWarehouseCandidates(NgoNodes[1])[k]
          IN  /\ TierThreshold(c) = 5500
              /\ \E u \in Sendable(c) : ArrivalFreshness(u, c) < 5500

\* the nearest top-K candidate warehouses of the line item, and whether one
\* of them can fulfil at least 95 % of it
TopKCandidates ==
    SubSeq(AllWarehouseCandidates(NgoNodes[1]), 1,
           Min(Len(AllWarehouseCandidates(NgoNodes[1])),
               Max(1, TopKOf(cfg.topKEnv))))

TopKReaches95 ==
    \E k \in DOMAIN TopKCandidates :
        /\ Sendable(TopKCandidates[k]) # {}
        /\ EvaluatedAt(TopKCandidates[k]).fulfilled * 100
             >= 95 * MLItemNow.required_kg

\* whether allocateML goes on to evaluate all candidates for the line item
WidensNow ==
    ShouldWiden(EvaluateCandidates([ overall |-> <<>>, inCap |-> <<>> ],
                                   TopKCandidates, heap, ml.unused, MLItemNow,
                                   ml.dispatchTime, ml.anomaly),
                AllWarehouseCandidates(NgoNodes[1]), MLItemNow.required_kg)

\* C26: for each line item allocateML evaluates the nearest top-K
\* warehouses first and widens the evaluation to all warehouses within the
\* hard cap if and only if no top-K candidate reaches a fulfillment ratio
\* >= 95 % (and more candidates than K exist).
C26_WidenIffNoTopKReaches95 ==
    MLAtItem =>
        (WidensNow <=>
            /\ Len(AllWarehouseCandidates(NgoNodes[1])) > Len(TopKCandidates)
            /\ ~TopKReaches95)

\* the candidates evaluateCandidates has scored when the choice is made:
\* those of the top-K (of all, after widening) that have sendable stock
EvaluatedCandidates ==
    LET from == IF WidensNow THEN AllWarehouseCandidates(NgoNodes[1])
                ELSE TopKCandidates
    IN  { from[k] : k \in { j \in DOMAIN from : Sendable(from[j]) # {} } }

InRadius == { c \in EvaluatedCandidates : c.distance <= 250 }

\* the highest-scoring candidates of a set
TopScoring(cands) ==
    { c \in cands :
        \A d \in cands : EvaluatedAt(d).score <= EvaluatedAt(c).score }

Fulfils60(c) == EvaluatedAt(c).fulfilled * 100 >= 60 * MLItemNow.required_kg

\* the choice the rule prescribes is the warehouse of allocation a
ChosenByRule(a) ==
    \/ \E c \in TopScoring(InRadius) :
          Fulfils60(c) /\ a.warehouse = c.warehouse._id
                       /\ a.distance_km = c.distance
    \/ /\ \A c \in TopScoring(InRadius) : ~Fulfils60(c)
       /\ \E c \in TopScoring(EvaluatedCandidates) :
             a.warehouse = c.warehouse._id /\ a.distance_km = c.distance

\* C27: allocateML selects the highest-scoring candidate within the
\* preferred-distance radius (250 km) when that candidate can fulfil >= 60 %
\* of the requirement, otherwise the highest-scoring candidate overall; in
\* every case the source warehouse of the Allocation lies within the hard
\* distance cap (distance_km <= 450).  A line item with a scored candidate
\* gets its Allocation.
C27_InRadiusElseOverall ==
    [][ MLAtItem =>
          /\ EvaluatedCandidates # {}
                => Len(ml'.allocations) = Len(ml.allocations) + 1
          /\ Len(ml'.allocations) = Len(ml.allocations) + 1
                => /\ ChosenByRule(ml'.allocations[Len(ml'.allocations)])
                   /\ ml'.allocations[Len(ml'.allocations)].distance_km
                        <= hardMaxDistanceKm
      ]_vars

\* an Allocation from beyond the preferred radius while a warehouse beyond
\* the hard cap held more rice
C27_Witness ==
    /\ \E u \in DOMAIN heap :
          /\ heap[u].currentNode = "W5"
          /\ heap[u].quantity_kg = 100
          /\ heap[u].status = "stored"
    /\ \E a \in DOMAIN ml.allocations :
          /\ ml.allocations[a].required_kg = 100
          /\ ml.allocations[a].allocated_kg = 60
          /\ ml.allocations[a].warehouse = "W3"
          /\ ml.allocations[a].distance_km > maxPreferredDistanceKm


\* the line item allocateML is at, allocated with and without the anomaly
\* flag of the demand node's region, everything else as it is
MLItemUnder(anomaly, now) ==
    MLItem(heap, ml.unused, ml.allocations, ml.requests[ml.r], MLItemNow,
           ml.options, anomaly, now)

\* C33: the demand signal does not influence which warehouse or batches
\* allocateML selects: the urgency boost multiplies the score of every
\* candidate warehouse of a line item by the same factor, so for every line
\* item the run reaches, the Allocation records, the snapshot and the
\* batches after the item are the same whether the region is flagged as
\* anomalous or not; two runs that differ only in the demand signal
\* therefore produce identical Allocation records.
C33_SignalDoesNotSelect ==
    MLAtItem =>
        \A now \in WallClockTimes :
            ReadsDispatchTime(now)
              => MLItemUnder(TRUE, now) = MLItemUnder(FALSE, now)

\* a line item reached with the region flagged, two warehouses holding
\* eligible rice, and the item allocated
C33_Witness ==
    /\ ml.anomaly
    /\ running = "ml"
    /\ ml.pc \in { "items", "request" }
    /\ ml.allocations # <<>>
    /\ \E j, k \in DOMAIN ml.unused :
         /\ heap[ml.unused[j]].currentNode # heap[ml.unused[k]].currentNode
         /\ heap[ml.unused[j]].quantity_kg > 0
         /\ heap[ml.unused[k]].quantity_kg > 0


\* C34: at the end of every allocateML run the transfer trace is
\* consistent: attemptedRuns = runs + errorRuns, the timeline has exactly
\* attemptedRuns + skippedRuns entries, appliedTransfers <=
\* suggestedTransfers, and in cron mode attemptedRuns + skippedRuns equals
\* the number of cron runs and is <= the maximum run count.
C34_TraceConsistent ==
    ml.pc = "done" =>
        LET d == ml.debug
        IN  /\ d.attemptedRuns = d.runs + d.errorRuns
            /\ Len(d.timeline) = d.attemptedRuns + d.skippedRuns
            /\ d.appliedTransfers <= d.suggestedTransfers
            /\ useTransferPlannerCron(ml.options)
                 => /\ d.attemptedRuns + d.skippedRuns = ml.cronRuns
                    /\ ml.cronRuns <= MaxCronRunsOf(cfg.cronMaxRunsEnv)

\* a run in cron mode has ended with two cron runs in its trace: a call that
\* was answered and applied, and a call that failed
C34_Witness ==
    /\ ml.pc = "done"
    /\ useTransferPlannerCron(ml.options)
    /\ ml.cronRuns = 2
    /\ ml.debug.runs = 1
    /\ ml.debug.errorRuns = 1
    /\ ml.debug.appliedTransfers = 1


\* ------------------------------------------------------------------------
\* Termination (checked under SpecLive)
\* ------------------------------------------------------------------------
Returned(pc) == pc \in { "done", "threw" }

\* C36: every run of allocateRegular and of allocateML terminates (returns
\* or rejects) for every request list and every response of the planner,
\* and the cron catch-up loop performs at most the maximum run count of
\* runs.
C36_RunsTerminate ==
    /\ (reg.pc # "idle") ~> Returned(reg.pc)
    /\ (ml.pc # "idle") ~> Returned(ml.pc)
    /\ [](ml.cronRuns <= MaxCronRunsOf(cfg.cronMaxRunsEnv))

\* both allocators have returned, allocateML after two cron runs
C36_Witness ==
    /\ reg.pc = "done"
    /\ ml.pc = "done"
    /\ ml.cronRuns = 2
    /\ Len(ml.debug.timeline) = 2

\* ------------------------------------------------------------------------
\* Claims about the metrics (checked under SpecMetrics)
\* ------------------------------------------------------------------------
\* C24: calcMetrics only computes: after it returns, every Allocation
\* record and every Batch passed to it (quantities, batch lists, dispatch
\* times) is unchanged.
C24_MetricsOnlyCompute ==
    [][ ctl.pc = "finished" /\ ctl'.pc = "responded"
          => /\ heap' = heap
             /\ ctl'.regular = ctl.regular
             /\ ctl'.ml = ctl.ml
             /\ reg'.allocations = reg.allocations
             /\ ml'.allocations = ml.allocations ]_vars

\* the metrics of a run that delivered rice which had lost freshness on the
\* way have been computed
C24_Witness ==
    /\ ctl.pc = "responded"
    /\ ctl.regularMetrics.totalAllocated > 0
    /\ ctl.mlMetrics.deliveredKg > 0
    /\ ctl.mlMetrics.deliveredAvgFreshness < 10000
    /\ \E a \in DOMAIN ctl.ml : \E j \in DOMAIN ctl.ml[a].batches :
          ctl.ml[a].batches[j].freshness
            # MetricsFreshness(heap, Fetched, ctl.ml[a], ctl.ml[a].batches[j],
                                  DefaultAvgTemp, SimulationStartTime)

\* ------------------------------------------------------------------------
\* Specification of the freshness functions alone: the batch and the
\* temperature are drawn at the start, every step evaluates the functions
\* at a further time and keeps the previous evaluation for comparison.
\* ------------------------------------------------------------------------
FreshTimes == { k * 6 * HourMin : k \in 0 .. MaxFreshSteps }

FreshBatches ==
    [ manufacture_date : {NoDate, 0, 12 * HourMin},
      shelf_life_hours : {0, 24, 48} ]

FreshTemps == {15, 20, 25, 30, 40}

FreshInit ==
    /\ \E b \in FreshBatches, temp \in FreshTemps :
         fr = [ batch |-> b, temp |-> temp, evaluated |-> 0,
                time |-> 0, pct |-> 0, spoiled |-> FALSE, remaining |-> 0,
                prevTime |-> 0, prevPct |-> 0 ]
    /\ cfg = [ mode |-> "none", enableTransferPlanner |-> FALSE, cronHours |-> 0,
               cronMaxRunsEnv |-> <<>>, warehouses |-> WarehouseNodes,
               window |-> <<>>, topKEnv |-> <<>>, plannerAnswers |-> "planned",
               dispatchMode |-> "spread",
               batches |-> <<>>, requests |-> <<>> ]
    /\ heap = <<>>
    /\ entry = <<>>
    /\ reg = RegIdle
    /\ ml = MlIdle
    /\ running = "idle"
    /\ ctl = CtlIdle
    /\ db = EmptyDb

EvaluateFreshness ==
    /\ \E t \in FreshTimes :
        fr' = [ fr EXCEPT
                  !.evaluated = Min(2, fr.evaluated + 1),
                  !.time = t,
                  !.pct = calculateFreshnessPct(fr.batch, t, fr.temp),
                  !.spoiled = isSpoiled(fr.batch, t, fr.temp),
                  !.remaining = remainingShelfLifeHours(fr.batch, t, fr.temp),
                  !.prevTime = fr.time,
                  !.prevPct = fr.pct ]
    /\ UNCHANGED <<db, cfg, heap, entry, reg, ml, running, ctl>>

FreshNext == EvaluateFreshness

SpecFresh == FreshInit /\ [][FreshNext]_vars

\* ------------------------------------------------------------------------
\* Claims about the freshness functions (checked under SpecFresh)
\* ------------------------------------------------------------------------

\* C7: for every batch, every evaluation time (also times before the
\* manufacture date) and every temperature, calculateFreshnessPct returns a
\* value in [0, 100].
C7_FreshnessInRange ==
    fr.evaluated >= 1 => (0 <= fr.pct /\ fr.pct <= 10000)

\* C8: for a fixed batch and a fixed temperature calculateFreshnessPct is
\* non-increasing in the evaluation time: t1 <= t2 implies
\* freshness(t1) >= freshness(t2).
C8_FreshnessNonIncreasing ==
    fr.evaluated >= 2 =>
        /\ (fr.prevTime <= fr.time => fr.prevPct >= fr.pct)
        /\ (fr.time <= fr.prevTime => fr.pct >= fr.prevPct)

\* two evaluations of a perishable batch at different times with different
\* results, the later one lower
C8_Witness ==
    /\ fr.evaluated >= 2
    /\ fr.batch.manufacture_date # NoDate
    /\ fr.batch.shelf_life_hours > 0
    /\ fr.prevTime < fr.time
    /\ fr.prevPct > fr.pct
    /\ fr.pct > 0

\* C9: calculateFreshnessPct equals the reference decay function for every
\* input: 100 without a manufacture date or without a positive shelf life,
\* otherwise 100 - (elapsedHours / shelfLifeHours) * 100 * tempFactor with
\* tempFactor = 1 + max(0, (avgTemp - 20) / 10) * 0.5, clamped to [0, 100]
\* and rounded to 2 decimals; shelf life 48 h, 25 C, 24 h elapsed gives 37.5.
C9_EqualsReference ==
    fr.evaluated >= 1 =>
        LET b == fr.batch
            elapsedMin == fr.time - b.manufacture_date
            twentyTempFactor == 20 + (IF fr.temp > 20 THEN fr.temp - 20 ELSE 0)
            \* percent = pnum / pden
            pnum == 1200 * b.shelf_life_hours - elapsedMin * twentyTempFactor
            pden == 12 * b.shelf_life_hours
            reference ==
                IF b.manufacture_date = NoDate \/ b.shelf_life_hours <= 0
                THEN 10000
                ELSE IF pnum <= 0 THEN 0
                ELSE IF pnum >= 100 * pden THEN 10000
                ELSE (200 * pnum + pden) \div (2 * pden)
        IN  /\ fr.pct = reference
            /\ (/\ b.manufacture_date = 0 /\ b.shelf_life_hours = 48
                /\ fr.temp = 25 /\ fr.time = 24 * HourMin) => fr.pct = 3750

\* ------------------------------------------------------------------------
\* controllers/shipment.controller.js: createShipment, markShipmentArrived
\*
\* Each handler runs in one MongoDB transaction (session.startTransaction,
\* then commitTransaction or abortTransaction, every read and write with
\* { session }): its writes take effect together or not at all, and of two
\* transactions that write the same document only one commits.  A handler
\* is therefore one step.  The _id of a Batch is its index in db.batches,
\* the _id of a Shipment its index in db.shipments; a parentBatchId of 0 is
\* no parent.  The ETA of the transport service (or the fallback of the
\* catch around its call) is not carried: it selects no batch.
\* ------------------------------------------------------------------------
\* number of requests to the shipment routes in one behaviour
MaxCalls == 3

\* the Node documents; extractCoordinates finds no coordinates in N3
ShipNodes == { "N1", "N2", "N3" }

LocatedNodes == { "N1", "N2" }

\* a Batch as createBatch stores it
StoredBatch(food, kg, node, made) ==
    [ foodType |-> food, quantity_kg |-> kg, original_quantity_kg |-> kg,
      currentNode |-> node, status |-> "stored", shelf_life_hours |-> 48,
      manufacture_date |-> made, parentBatchId |-> 0 ]

\* the batches stored before the first request: rice of two manufacture
\* dates and wheat at N1; two lots of rice of one manufacture date at N1
\* and rice at N2
StoredStock ==
    { << StoredBatch("rice", 50, "N1", 1), StoredBatch("rice", 30, "N1", 2),
         StoredBatch("wheat", 40, "N1", 1) >>,
      << StoredBatch("rice", 50, "N1", 1), StoredBatch("rice", 50, "N1", 1),
         StoredBatch("rice", 20, "N2", 0) >> }

\* one element of req.body.items
ShipItem(food, kg) == [ foodType |-> food, quantity_kg |-> kg ]

\* req.body of POST /api/shipments ("" is a missing field)
ShipBody(from, to, items) ==
    [ fromNodeId |-> from, toNodeId |-> to, items |-> items ]

\* the request bodies: whole batches, a partial take, one food type in two
\* items, an invalid or unsatisfiable item after a satisfiable one, no
\* items, a missing field, an unknown node, a destination without
\* coordinates
ShipmentRequests ==
    { ShipBody("N1", "N2", << ShipItem("rice", 50) >>),
      ShipBody("N1", "N2", << ShipItem("rice", 30) >>),
      ShipBody("N1", "N2", << ShipItem("rice", 60), ShipItem("wheat", 40) >>),
      ShipBody("N1", "N2", << ShipItem("rice", 50), ShipItem("rice", 50) >>),
      ShipBody("N1", "N2", << ShipItem("rice", 30), ShipItem("rice", 20) >>),
      ShipBody("N1", "N2", << ShipItem("rice", 30), ShipItem("wheat", 0) >>),
      ShipBody("N1", "N2", << ShipItem("rice", 30), ShipItem("", 10) >>),
      ShipBody("N1", "N2", << ShipItem("rice", 30), ShipItem("wheat", 100) >>),
      ShipBody("N1", "N2", <<>>),
      ShipBody("", "N2", << ShipItem("rice", 30) >>),
      ShipBody("N9", "N2", << ShipItem("rice", 30) >>),
      ShipBody("N1", "N9", << ShipItem("rice", 30) >>),
      ShipBody("N1", "N3", << ShipItem("rice", 30) >>) }

\* the documents of a transaction's session
Collections(d) ==
    [ batches |-> d.batches, shipments |-> d.shipments, events |-> d.events ]

\* the writes of the session are kept
AbortKeepingWrites(before, tx) == tx

\* session.abortTransaction(): the writes of the session are discarded
abortTransaction(before, tx) == before

\* session.commitTransaction(): the writes of the session become the
\* documents
commitTransaction(before, tx) == tx

\* Batch.find({ currentNode, foodType, status: "stored",
\*              quantity_kg: { $gt: 0 } })
StoredAt(batches, node, food) ==
    { k \in DOMAIN batches :
        /\ batches[k].currentNode = node
        /\ batches[k].foodType = food
        /\ batches[k].status = "stored"
        /\ batches[k].quantity_kg > 0 }

\* every order of a set of ids
RECURSIVE Orders(_)
Orders(S) ==
    IF S = {} THEN { <<>> }
    ELSE UNION { { << x >> \o o : o \in Orders(S \ { x }) } : x \in S }

\* .sort({ manufacture_date: 1 }): oldest first; the order of two batches of
\* one manufacture date is not determined
FifoOrders(batches, found) ==
    { o \in Orders(found) :
        \A i, j \in DOMAIN o :
            i < j => batches[o[i]].manufacture_date
                       <= batches[o[j]].manufacture_date }

\* the child of a split: Batch.create with the needed quantity, stored at
\* the parent's node, the other fields copied from the parent
ChildBatch(batch, parentId, qty) ==
    [ batch EXCEPT !.quantity_kg = qty, !.status = "stored",
                   !.parentBatchId = parentId ]

\* an element of allocatedBatches (item: the index of the line item that
\* pushed it, kept for the claims only)
AllocatedBatch(id, qty, split, parentId, item) ==
    [ batchId |-> id, quantity |-> qty, isSplit |-> split,
      parentBatchId |-> parentId, item |-> item ]

\* one round of `for (const batch of availableBatches)`
TakeBatch(st, id, item) ==
    LET batch == st.batches[id]
        childId == Len(st.batches) + 1
    IN  IF st.remainingQty <= 0 THEN st
        ELSE IF batch.quantity_kg >= st.remainingQty
        THEN IF batch.quantity_kg = st.remainingQty
             THEN [ st EXCEPT
                      !.allocatedBatches =
                          Append(@, AllocatedBatch(id, st.remainingQty, FALSE,
                                                   0, item)),
                      !.allBatchIds = Append(@, id),
                      !.remainingQty = 0 ]
             ELSE [ st EXCEPT
                      !.batches =
                          Append([ @ EXCEPT ![id].quantity_kg =
                                       @ - st.remainingQty ],
                                 ChildBatch(batch, id, st.remainingQty)),
                      !.allocatedBatches =
                          Append(@, AllocatedBatch(childId, st.remainingQty,
                                                   TRUE, id, item)),
                      !.allBatchIds = Append(@, childId),
                      !.remainingQty = 0 ]
        ELSE [ st EXCEPT
                 !.allocatedBatches =
                     Append(@, AllocatedBatch(id, batch.quantity_kg, FALSE,
                                              0, item)),
                 !.allBatchIds = Append(@, id),
                 !.remainingQty = @ - batch.quantity_kg ]

\* the loop over availableBatches from its j-th batch on
RECURSIVE TakeBatches(_, _, _, _)
TakeBatches(st, order, j, item) ==
    IF j > Len(order) THEN st
    ELSE TakeBatches(TakeBatch(st, order[j], item), order, j + 1, item)

\* the body of `for (const item of items)` for a valid item, the find
\* having answered in the given order: 400 when a remainder is left
AllocateFrom(st, body, k, order) ==
    LET taken == TakeBatches([ st EXCEPT !.remainingQty =
                                             body.items[k].quantity_kg ],
                             order, 1, k)
    IN  IF taken.remainingQty > 0 THEN [ taken EXCEPT !.error = 400 ]
        ELSE taken

\* !foodType || typeof quantity_kg !== "number" || quantity_kg <= 0
InvalidItem(item) == item.foodType = "" \/ item.quantity_kg <= 0

\* the loop over the items from the k-th on: every state the session can
\* be in when the loop is left
RECURSIVE AllocateItems(_, _, _)
AllocateItems(st, body, k) ==
    IF k > Len(body.items) \/ st.error # 0 THEN { st }
    ELSE IF InvalidItem(body.items[k]) THEN { [ st EXCEPT !.error = 400 ] }
    ELSE UNION { AllocateItems(AllocateFrom(st, body, k, order), body, k + 1) :
                   order \in FifoOrders(st.batches,
                                        StoredAt(st.batches, body.fromNodeId,
                                                 body.items[k].foodType)) }

\* the checks before the loop: 400 for a missing field or no items, 404
\* for a node Node.findById does not find, else 0
Rejected(body) ==
    IF body.fromNodeId = "" \/ body.toNodeId = "" THEN 400
    ELSE IF body.items = <<>> THEN 400
    ELSE IF body.fromNodeId \notin ShipNodes THEN 404
    ELSE IF body.toNodeId \notin ShipNodes THEN 404
    ELSE 0

\* Batch.findByIdAndUpdate(batchId, { status: "in_transit" }) for every id
\* of allBatchIds
InTransit(batches, ids) ==
    [ k \in DOMAIN batches |->
        IF \E j \in DOMAIN ids : ids[j] = k
        THEN [ batches[k] EXCEPT !.status = "in_transit" ]
        ELSE batches[k] ]

\* the Shipment document of createShipment
NewShipment(body, st) ==
    [ batchIds |-> st.allBatchIds, fromNode |-> body.fromNodeId,
      toNode |-> body.toNodeId, status |-> "in_transit",
      allocatedBatches |-> st.allocatedBatches, items |-> body.items ]

\* what the handler leaves: the documents and the status of the response
Answered(collections, status) ==
    [ batches |-> collections.batches, shipments |-> collections.shipments,
      events |-> collections.events, status |-> status ]

\* createShipment after the loop over the items: extractCoordinates
\* throws an Error for a node without coordinates (answered as 500),
\* else the shipment is created, its batches are set in transit, the
\* event is created and the transaction is committed
ShipAllocated(d, body, st) ==
    IF st.error # 0
    THEN Answered(abortTransaction(Collections(d), Collections(st)), st.error)
    ELSE IF body.fromNodeId \notin LocatedNodes \/ body.toNodeId \notin LocatedNodes
    THEN Answered(abortTransaction(Collections(d), Collections(st)), 500)
    ELSE Answered(
             commitTransaction(
                 Collections(d),
                 [ batches |-> InTransit(st.batches, st.allBatchIds),
                   shipments |-> Append(st.shipments, NewShipment(body, st)),
                   events |-> Append(st.events,
                                     [ type |-> "shipment_created",
                                       shipment |-> Len(st.shipments) + 1,
                                       batchCount |-> Len(st.allBatchIds) ]) ]),
             201)

\* createShipment: every answer it can give to a request body
createShipment(d, body) ==
    IF Rejected(body) # 0
    THEN { Answered(abortTransaction(Collections(d), Collections(d)),
                    Rejected(body)) }
    ELSE { ShipAllocated(d, body, st) :
             st \in AllocateItems([ batches |-> d.batches,
                                    shipments |-> d.shipments,
                                    events |-> d.events,
                                    allocatedBatches |-> <<>>,
                                    allBatchIds |-> <<>>,
                                    remainingQty |-> 0, error |-> 0 ],
                                  body, 1) }

\* a shipment that passes for not yet arrived
NeverArrived(shipment) == FALSE

\* shipment.status === "arrived"
AlreadyArrived(shipment) == shipment.status = "arrived"

\* Batch.findByIdAndUpdate(batchId, { currentNode: toNode, status:
\* "delivered" }) for every id of shipment.batchIds
Delivered(batches, shipment) ==
    [ k \in DOMAIN batches |->
        IF \E j \in DOMAIN shipment.batchIds : shipment.batchIds[j] = k
        THEN [ batches[k] EXCEPT !.currentNode = shipment.toNode,
                                 !.status = "delivered" ]
        ELSE batches[k] ]

\* markShipmentArrived: 404 for an unknown id, 400 for a shipment that has
\* arrived, else the shipment and its batches are updated and the event
\* is created
markShipmentArrived(d, id) ==
    IF id \notin DOMAIN d.shipments
    THEN Answered(abortTransaction(Collections(d), Collections(d)), 404)
    ELSE IF AlreadyArrived(d.shipments[id])
    THEN Answered(abortTransaction(Collections(d), Collections(d)), 400)
    ELSE Answered(
             commitTransaction(
                 Collections(d),
                 [ batches |-> Delivered(d.batches, d.shipments[id]),
                   shipments |-> [ d.shipments EXCEPT ![id].status = "arrived" ],
                   events |-> Append(d.events,
                                     [ type |-> "shipment_arrived",
                                       shipment |-> id,
                                       batchCount |->
                                           Len(d.shipments[id].batchIds) ]) ]),
             200)

\* the database after a handler has answered
AfterCall(d, call, id, body, answer) ==
    [ batches |-> answer.batches, shipments |-> answer.shipments,
      events |-> answer.events,
      request |-> [ call |-> call, id |-> id, body |-> body ],
      response |-> [ status |-> answer.status ], calls |-> d.calls + 1 ]

\* POST /api/shipments
CreateShipment ==
    /\ db.calls < MaxCalls
    /\ \E body \in ShipmentRequests :
         \E answer \in createShipment(db, body) :
             db' = AfterCall(db, "create", 0, body, answer)
    /\ UNCHANGED <<fr, cfg, heap, entry, reg, ml, running, ctl>>

\* PATCH /api/shipments/:id/arrive
MarkShipmentArrived ==
    /\ db.calls < MaxCalls
    /\ \E id \in 1 .. MaxCalls :
         db' = AfterCall(db, "arrive", id, EmptyDb.request.body,
                         markShipmentArrived(db, id))
    /\ UNCHANGED <<fr, cfg, heap, entry, reg, ml, running, ctl>>

\* the database holds the stored batches; no simulation is running
InitShip ==
    /\ \E stock \in StoredStock : db = [ EmptyDb EXCEPT !.batches = stock ]
    /\ fr = FrIdle
    /\ cfg = [ mode |-> "none", enableTransferPlanner |-> FALSE, cronHours |-> 0,
               cronMaxRunsEnv |-> <<>>, warehouses |-> WarehouseNodes,
               window |-> <<>>, topKEnv |-> <<>>, plannerAnswers |-> "planned",
               dispatchMode |-> "spread",
               batches |-> <<>>, requests |-> <<>> ]
    /\ heap = <<>>
    /\ entry = <<>>
    /\ reg = RegIdle
    /\ ml = MlIdle
    /\ running = "idle"
    /\ ctl = CtlIdle

NextShip ==
    \/ CreateShipment
    \/ MarkShipmentArrived

SpecShip == InitShip /\ [][NextShip]_vars

\* ------------------------------------------------------------------------
\* Claims about the shipments (checked under SpecShip)
\* ------------------------------------------------------------------------
\* a step of createShipment, and one answered with 201
Creates == db'.calls = db.calls + 1 /\ db'.request.call = "create"

Created == Creates /\ db'.response.status = 201

\* the shipment a step of createShipment has created
TheShipment == db'.shipments[Len(db'.shipments)]

\* the kg of a food type stored at a node
StoredKgAt(batches, node, food) ==
    SumSeq([ k \in DOMAIN batches |->
               IF k \in StoredAt(batches, node, food)
               THEN batches[k].quantity_kg ELSE 0 ])

\* the kg of a food type the shipment records as allocated
RecordedKg(shipment, batches, food) ==
    SumSeq([ j \in DOMAIN shipment.allocatedBatches |->
               IF batches[shipment.allocatedBatches[j].batchId].foodType = food
               THEN shipment.allocatedBatches[j].quantity ELSE 0 ])

\* the batch that existed before the call from which batch k descends
RECURSIVE RootOf(_, _, _)
RootOf(batches, k, before) ==
    IF k <= before THEN k ELSE RootOf(batches, batches[k].parentBatchId, before)

\* the kg of the batches a call has split off root
SplitOffKg(batches, root, before) ==
    SumSeq([ k \in DOMAIN batches |->
               IF k > before /\ RootOf(batches, k, before) = root
               THEN batches[k].quantity_kg ELSE 0 ])

\* no more of a food type is recorded than was stored at the source
WithinStored ==
    \A food \in { "rice", "wheat" } :
        RecordedKg(TheShipment, db'.batches, food)
            <= StoredKgAt(db.batches, TheShipment.fromNode, food)

\* no batch is allocated to two line items
OneItemPerBatch ==
    \A i, j \in DOMAIN TheShipment.allocatedBatches :
        TheShipment.allocatedBatches[i].batchId
            = TheShipment.allocatedBatches[j].batchId
        => TheShipment.allocatedBatches[i].item
             = TheShipment.allocatedBatches[j].item

\* a split keeps the quantity and the child inherits manufacture date and
\* shelf life
SplitsConserve ==
    /\ \A k \in DOMAIN db.batches :
           db'.batches[k].quantity_kg
               + SplitOffKg(db'.batches, k, Len(db.batches))
             = db.batches[k].quantity_kg
    /\ \A k \in DOMAIN db'.batches :
           k > Len(db.batches)
           => /\ db'.batches[k].parentBatchId \in 1 .. (k - 1)
              /\ db'.batches[k].manufacture_date
                   = db'.batches[db'.batches[k].parentBatchId].manufacture_date
              /\ db'.batches[k].shelf_life_hours
                   = db'.batches[db'.batches[k].parentBatchId].shelf_life_hours

\* C37: createShipment never ships more than is stored: for every request,
\* also one that lists a food type in several items, the kg recorded as
\* allocated do not exceed the kg of the food type stored at the source
\* before the call, no batch is allocated to more than one item, and a
\* partial take splits the batch so that parent and child together hold the
\* quantity before the split, the child inheriting manufacture date and
\* shelf life.
C37_NeverShipsMoreThanStored ==
    [][ Created => WithinStored /\ OneItemPerBatch /\ SplitsConserve ]_vars

\* the request has an item that is invalid or that asks for more than the
\* kg of its food type stored at the source
CannotBeMet(body, batches) ==
    \E k \in DOMAIN body.items :
        \/ InvalidItem(body.items[k])
        \/ body.items[k].quantity_kg
             > StoredKgAt(batches, body.fromNodeId, body.items[k].foodType)

\* C38: createShipment is all-or-nothing: a request with an invalid item or
\* with an item for which the stored inventory of its food type is
\* insufficient is answered with an error, and then no batch quantity or
\* status has changed, no child batch exists and no shipment or event was
\* created; on success every batch of the shipment has status in_transit.
C38_AllOrNothing ==
    [][ Creates
        => /\ CannotBeMet(db'.request.body, db.batches)
                => /\ db'.response.status >= 400
                   /\ db'.batches = db.batches
                   /\ db'.shipments = db.shipments
                   /\ db'.events = db.events
           /\ db'.response.status = 201
                => /\ Len(db'.shipments) = Len(db.shipments) + 1
                   /\ \A j \in DOMAIN TheShipment.batchIds :
                          db'.batches[TheShipment.batchIds[j]].status
                              = "in_transit" ]_vars

\* after a shipment of a split-off child, a request whose first item could
\* be met by a split and whose second item asks for more wheat than is
\* stored has been answered 400, and the batches are as the shipment left
\* them
C38_Witness ==
    /\ db.calls = 2
    /\ db.request.call = "create"
    /\ db.response.status = 400
    /\ db.request.body.items = << ShipItem("rice", 30), ShipItem("wheat", 100) >>
    /\ Len(db.shipments) = 1
    /\ Len(db.events) = 1
    /\ Len(db.batches) = 4
    /\ db.batches[4].status = "in_transit"
    /\ db.batches[1].status = "stored"
    /\ db.batches[1].quantity_kg = 20

\* a step of markShipmentArrived
Arrives == db'.calls = db.calls + 1 /\ db'.request.call = "arrive"

\* the changes of a batch's status
ShippedOnward(before, after) ==
    \/ before = "stored" /\ after = "in_transit"
    \/ before = "in_transit" /\ after = "delivered"

\* the shipment_arrived events of a shipment
ArrivalsOf(events, id) ==
    { e \in DOMAIN events :
        events[e].type = "shipment_arrived" /\ events[e].shipment = id }

\* C39: a shipment is marked arrived at most once: markShipmentArrived on
\* a shipment that has arrived is answered with an error and changes
\* nothing; a successful call sets the shipment to arrived and moves every
\* batch of the shipment to the destination node with status delivered; the
\* status of a batch only goes stored -> in_transit -> delivered.
C39_ArrivesOnce ==
    [][ /\ Arrives /\ db'.request.id \in DOMAIN db.shipments
               /\ db.shipments[db'.request.id].status = "arrived"
            => /\ db'.response.status >= 400
               /\ db'.batches = db.batches
               /\ db'.shipments = db.shipments
               /\ db'.events = db.events
        /\ Arrives /\ db'.response.status = 200
            => /\ db.shipments[db'.request.id].status # "arrived"
               /\ db'.shipments[db'.request.id].status = "arrived"
               /\ \A j \in DOMAIN db.shipments[db'.request.id].batchIds :
                      LET batch ==
                            db'.batches[db.shipments[db'.request.id].batchIds[j]]
                      IN  /\ batch.currentNode
                               = db.shipments[db'.request.id].toNode
                          /\ batch.status = "delivered"
        /\ \A id \in DOMAIN db'.shipments :
               Cardinality(ArrivalsOf(db'.events, id)) <= 1
        /\ \A id \in DOMAIN db.shipments :
               db.shipments[id].status = "arrived"
               => db'.shipments[id].status = "arrived"
        /\ \A k \in DOMAIN db.batches :
               \/ db'.batches[k].status = db.batches[k].status
               \/ ShippedOnward(db.batches[k].status, db'.batches[k].status)
      ]_vars

\* a shipment has arrived, its batch is delivered at N2, and a second
\* request to mark it arrived has been answered 400
C39_Witness ==
    /\ db.calls = 3
    /\ db.request.call = "arrive"
    /\ db.response.status = 400
    /\ db.request.id \in DOMAIN db.shipments
    /\ db.shipments[db.request.id].status = "arrived"
    /\ Cardinality(ArrivalsOf(db.events, db.request.id)) = 1
    /\ \A j \in DOMAIN db.shipments[db.request.id].batchIds :
           /\ db.batches[db.shipments[db.request.id].batchIds[j]].status
                = "delivered"
           /\ db.batches[db.shipments[db.request.id].batchIds[j]].currentNode
                = "N2"

=============================================================================
